---- MODULE Spec2Model ----
(***************************************************************************)
(* A model of go-ozzo/ozzo-config: the Config object (config.go) with its  *)
(* dotted-path accessors Get/Set, the merge of configuration trees         *)
(* (SetData, Load, LoadJSON), the type registry (Register) and Configure.  *)
(*                                                                         *)
(* Go maps are reference types, so mappings live in a heap: a mapping      *)
(* value is a reference (an index into heap) and merge, Set and            *)
(* SetMapIndex update the referenced object in place.  Slices are carried  *)
(* by value together with their capacity: the one write of the package     *)
(* into a slice of the configuration (see setElement) is stored back       *)
(* where the slice is held.                                                *)
(***************************************************************************)
EXTENDS Integers, Sequences, FiniteSets, TLC

VARIABLES
    heap,     \* the Go heap: a sequence of map objects, each a function key -> value
    data,     \* Config.data (a reflect.Value; Nil is the zero Value)
    types,    \* Config.types: name -> provider
    held,     \* the maps built by the caller, which it still references
    last,     \* the last call: operation, arguments, what it returned, and the
              \* order in which Configure visited the keys of the mappings
    srcs,     \* the trees merged into data since it was last absent, as they
              \* were when merged, and whether only merges made data (no Set)
    steps     \* number of calls made so far

vars == <<heap, data, types, held, last, srcs, steps>>

----------------------------------------------------------------------------
(* Bounds of the model *)

MaxSteps == 2      \* calls made on one Config in one behaviour

----------------------------------------------------------------------------
(* Dynamic values.  A value is a record [k, n, s, m]:                      *)
(*   k  the reflect.Kind ("invalid" is the zero reflect.Value / nil)       *)
(*   n  the payload of a scalar: 0/1 for bool, the integer for int and     *)
(*      int64, the number in tenths for float64, a string token for        *)
(*      string; the heap index for a map reference; the capacity for a     *)
(*      slice                                                              *)
(*   s  the elements of a slice                                            *)
(*   m  the entries of a mapping of a tree that is not in the heap         *)
(*      (a decoded document, or the unfolding of a reference); for a       *)
(*      slice, <<"CanSet">> when it is an element of a slice of slices     *)
(*      ([][]interface{}), which reflect reaches by Index, addressable     *)

Nil == [k |-> "invalid", n |-> 0, s |-> <<>>, m |-> <<>>]
MkBool(b) == [k |-> "bool", n |-> IF b THEN 1 ELSE 0, s |-> <<>>, m |-> <<>>]
MkInt(i) == [k |-> "int", n |-> i, s |-> <<>>, m |-> <<>>]
MkInt64(i) == [k |-> "int64", n |-> i, s |-> <<>>, m |-> <<>>]
MkFloat(tenths) == [k |-> "float64", n |-> tenths, s |-> <<>>, m |-> <<>>]
MkStr(tok) == [k |-> "string", n |-> tok, s |-> <<>>, m |-> <<>>]
MkSlice(elems, cap) == [k |-> "slice", n |-> cap, s |-> elems, m |-> <<>>]
MkSlot(elems, cap) == [k |-> "slice", n |-> cap, s |-> elems, m |-> <<"CanSet">>]
MkRef(id) == [k |-> "map", n |-> id, s |-> <<>>, m |-> <<>>]
MkTree(f) == [k |-> "map", n |-> 0, s |-> <<>>, m |-> f]

Kind(v) == v.k
IsValid(v) == v.k # "invalid"
CanSet(v) == v.k = "slice" /\ v.m = <<"CanSet">>

(* the empty mapping, as a function with an empty domain *)
EmptyMap == [x \in {} |-> Nil]

(* Keys of the mappings and segments of the dotted paths.  "0", "1", "2"   *)
(* and "-1" are the segments strconv.Atoi accepts.                         *)
Keys == {"a", "b"}
Segs == {"a", "b", "0", "1", "2", "-1"}

(* The orders in which one range over a map's keys may visit them (Go      *)
(* leaves the order of MapKeys unspecified): every key of the model in     *)
(* ascending and in descending order, so that any two keys of a map are    *)
(* visited both ways round.                                                *)
KeyList ==
    <<"A0", "A1", "A2", "A5", "A6", "A7", "A8", "E1", "E2", "a", "a2", "b", "type", "zz">>
Reverse(q) == [i \in 1..Len(q) |-> q[Len(q) + 1 - i]]
KeyOrders == {KeyList, Reverse(KeyList)}

----------------------------------------------------------------------------
(* The heap of map objects *)

(* reflect.Value.MapKeys, visited in the order ord *)
MapKeys(h, mp, ord) == SelectSeq(ord, LAMBDA key : key \in DOMAIN h[mp.n])

(* mapIndex: the element of a map under a key, unwrapped from its          *)
(* interface; the zero Value when the key is absent or holds nil           *)
mapIndex(h, mp, key) ==
    IF key \in DOMAIN h[mp.n] THEN h[mp.n][key] ELSE Nil

(* reflect.Value.SetMapIndex: stores elem under key in the map object      *)
(* itself; the zero Value as elem deletes the key                          *)
SetMapIndex(h, mp, key, elem) ==
    LET obj == h[mp.n]
        new == IF IsValid(elem)
               THEN [x \in (DOMAIN obj) \cup {key} |-> IF x = key THEN elem ELSE obj[x]]
               ELSE [x \in (DOMAIN obj) \ {key} |-> obj[x]]
    IN [h EXCEPT ![mp.n] = new]

(* make(map[string]interface{}): a new empty map object *)
MakeMap(h) == [h |-> Append(h, EmptyMap), v |-> MkRef(Len(h) + 1)]

(* A decoded document (json.Unmarshal into an interface{}) placed in the   *)
(* heap: every mapping of the tree t becomes a new map object.             *)
RECURSIVE Alloc(_, _), AllocMap(_, _, _, _), AllocSeq(_, _, _, _)
Alloc(h, t) ==
    CASE t.k = "map" -> AllocMap(h, t.m, DOMAIN t.m, EmptyMap)
      [] t.k = "slice" -> AllocSeq(h, t, 1, <<>>)
      [] OTHER -> [h |-> h, v |-> t]

AllocMap(h, f, todo, acc) ==
    IF todo = {}
    THEN [h |-> Append(h, acc), v |-> MkRef(Len(h) + 1)]
    ELSE LET key == CHOOSE x \in todo : TRUE
             r == Alloc(h, f[key])
         IN AllocMap(r.h, f, todo \ {key},
                     [x \in (DOMAIN acc) \cup {key} |-> IF x = key THEN r.v ELSE acc[x]])

AllocSeq(h, t, i, acc) ==
    IF i > Len(t.s)
    THEN [h |-> h, v |-> [k |-> "slice", n |-> t.n, s |-> acc, m |-> t.m]]
    ELSE LET r == Alloc(h, t.s[i])
         IN AllocSeq(r.h, t, i + 1, Append(acc, r.v))

(* The tree a value stands for: references replaced by the content of the  *)
(* map objects they point to (what json.Marshal of the value prints).      *)
RECURSIVE Tree(_, _)
Tree(h, v) ==
    CASE v.k = "map" ->
           MkTree([key \in DOMAIN h[v.n] |-> Tree(h, h[v.n][key])])
      [] v.k = "slice" ->
           [k |-> "slice", n |-> v.n, s |-> [i \in 1..Len(v.s) |-> Tree(h, v.s[i])],
            m |-> v.m]
      [] OTHER -> v

----------------------------------------------------------------------------
(* merge (config.go) *)

RECURSIVE merge(_, _, _, _), mergeKeys(_, _, _, _, _)

(* merge, changed to keep the base when the update is null *)
merge_KeepsBaseOnNull(h, v1, v2, ord) ==
    IF ~IsValid(v2)
    THEN [h |-> h, v |-> v1]
    ELSE IF Kind(v1) # "map" \/ Kind(v2) # "map" \/ ~IsValid(v1)
         THEN [h |-> h, v |-> v2]
         ELSE [h |-> mergeKeys(h, v1, v2, MapKeys(h, v2, ord), ord), v |-> v1]

(* merge answers the merged value and the heap it leaves: when both        *)
(* operands are maps the entries of v2 are stored into the map object v1.  *)
merge(h, v1, v2, ord) ==
    IF Kind(v1) # "map" \/ Kind(v2) # "map" \/ ~IsValid(v1)
    THEN [h |-> h, v |-> v2]
    ELSE [h |-> mergeKeys(h, v1, v2, MapKeys(h, v2, ord), ord), v |-> v1]

(* the loop of merge over the keys of v2 still to visit *)
mergeKeys(h, v1, v2, keys, ord) ==
    IF keys = <<>>
    THEN h
    ELSE LET key == Head(keys)
             e1 == mapIndex(h, v1, key)
             e2 == mapIndex(h, v2, key)
             r == IF Kind(e1) = "map" /\ Kind(e2) = "map"
                  THEN merge(h, e1, e2, ord)
                  ELSE [h |-> h, v |-> e2]
         IN mergeKeys(SetMapIndex(r.h, v1, key, r.v), v1, v2, Tail(keys), ord)

----------------------------------------------------------------------------
(* Dotted paths (config.go).  A path is the sequence of its segments, the  *)
(* parts strings.Split(path, ".") gives: never empty.                      *)

(* strconv.Atoi on a segment *)
Atoi(p) ==
    CASE p = "0" -> [ok |-> TRUE, i |-> 0]
      [] p = "1" -> [ok |-> TRUE, i |-> 1]
      [] p = "2" -> [ok |-> TRUE, i |-> 2]
      [] p = "-1" -> [ok |-> TRUE, i |-> -1]
      [] OTHER -> [ok |-> FALSE, i |-> 0]

(* getElement, changed to count the elements of a slice from one *)
getElement_FromOne(h, v, p) ==
    CASE Kind(v) = "map" -> mapIndex(h, v, p)
      [] Kind(v) = "slice" ->
           LET a == Atoi(p)
           IN IF a.ok /\ a.i >= 1 /\ a.i <= Len(v.s) THEN v.s[a.i] ELSE Nil
      [] OTHER -> Nil

(* getElement: the element of a map or slice at a segment, or the zero     *)
(* Value                                                                   *)
getElement(h, v, p) ==
    CASE Kind(v) = "map" -> mapIndex(h, v, p)
      [] Kind(v) = "slice" ->
           LET a == Atoi(p)
           IN IF a.ok /\ a.i >= 0 /\ a.i < Len(v.s) THEN v.s[a.i + 1] ELSE Nil
      [] OTHER -> Nil

(* reflect.Type.ConvertibleTo between the types of the dynamic values and  *)
(* of the scalar targets: numbers convert to numbers, integers to string   *)
(* (a one-rune string), and every type to itself                           *)
IsNumeric(k) == k \in {"int", "int64", "uint", "float64"}
ConvertibleTo(from, to) ==
    \/ from = to
    \/ IsNumeric(from) /\ IsNumeric(to)
    \/ from \in {"int", "int64"} /\ to = "string"

(* the token of the one-rune string string(rune(i)); U+FFFD for an         *)
(* integer that is no code point                                           *)
RuneBase == 1000
RuneError == 65533
RuneString(i) == RuneBase + (IF i >= 0 /\ i < 1114112 THEN i ELSE RuneError)

(* a float64 in tenths to an integer: the fraction is dropped *)
Truncate(tenths) == IF tenths >= 0 THEN tenths \div 10 ELSE -((-tenths) \div 10)

(* reflect.Value.Convert *)
Convert(v, to) ==
    CASE v.k = to -> v
      [] v.k = "float64" /\ to \in {"int", "int64", "uint"} ->
           [v EXCEPT !.k = to, !.n = Truncate(v.n)]
      [] v.k \in {"int", "int64"} /\ to = "float64" -> [v EXCEPT !.k = to, !.n = 10 * v.n]
      [] v.k \in {"int", "int64"} /\ to \in {"int", "int64", "uint"} -> [v EXCEPT !.k = to]
      [] v.k \in {"int", "int64"} /\ to = "string" -> MkStr(RuneString(v.n))
      [] OTHER -> v

(* Config.Get *)
RECURSIVE GetWalk(_, _, _)
GetWalk(h, v, parts) ==
    LET e == getElement(h, v, Head(parts))
    IN IF ~IsValid(e) \/ Len(parts) = 1 THEN e ELSE GetWalk(h, e, Tail(parts))

(* Get, changed to return the value found as it is *)
Get_NoConvert(h, d0, path, d) ==
    LET v == GetWalk(h, d0, path)
    IN IF ~IsValid(v) THEN d ELSE v

Get(h, d0, path, d) ==
    LET v == GetWalk(h, d0, path)
    IN IF ~IsValid(v) THEN d
       ELSE IF IsValid(d)
            THEN IF ConvertibleTo(v.k, d.k) THEN Convert(v, d.k) ELSE d
            ELSE v

(* GetString, GetInt, GetInt64, GetFloat, GetBool: Get with a default of   *)
(* the type, then the type assertion, which panics on another type         *)
GetTyped(h, d0, path, d) ==
    LET r == Get(h, d0, path, d)
    IN IF r.k = d.k THEN [v |-> r, err |-> ""] ELSE [v |-> Nil, err |-> "panic"]

(* reflect.Value.SetLen(n) followed by Index(n - 1).Set(value) on a slice   *)
(* that can be set: the slice is cut or extended to n elements (what an    *)
(* extension uncovers is nil, as after make) and, unless the value is the  *)
(* zero Value, on which Set panics, its last element becomes value         *)
SetLenAndIndex(dv, n, value) ==
    MkSlot([j \in 1..n |-> IF j = n /\ IsValid(value) THEN value
                           ELSE IF j <= Len(dv.s) THEN dv.s[j] ELSE Nil], dv.n)

(* setElement, changed to check the index against the length only when    *)
(* it is negative                                                          *)
setElement_NoBound(h, dv, p, v) ==
    CASE Kind(dv) = "map" -> [h |-> SetMapIndex(h, dv, p, v), err |-> "", v |-> dv]
      [] Kind(dv) = "slice" ->
           LET a == Atoi(p)
           IN IF ~a.ok \/ a.i < 0
              THEN [h |-> h, err |-> "is not a valid array or slice index", v |-> dv]
              ELSE IF ~CanSet(dv)
                   THEN [h |-> h, err |-> "panic", v |-> dv]
                   ELSE [h |-> h, err |-> IF IsValid(v) THEN "" ELSE "panic",
                         v |-> SetLenAndIndex(dv, a.i + 1, v)]
      [] OTHER -> [h |-> h, err |-> "", v |-> dv]

(* setElement, changed to extend a slice that can be set to its capacity   *)
(* before it refuses an index at or beyond the capacity                    *)
setElement_ExtendsFirst(h, dv, p, v) ==
    CASE Kind(dv) = "map" -> [h |-> SetMapIndex(h, dv, p, v), err |-> "", v |-> dv]
      [] Kind(dv) = "slice" ->
           LET a == Atoi(p)
           IN IF ~a.ok \/ a.i < 0
              THEN [h |-> h, err |-> "is not a valid array or slice index", v |-> dv]
              ELSE IF a.i >= dv.n
                   THEN [h |-> h, err |-> "is out of the slice index bound",
                         v |-> IF CanSet(dv) THEN SetLenAndIndex(dv, dv.n, Nil) ELSE dv]
                   ELSE IF ~CanSet(dv)
                        THEN [h |-> h, err |-> "panic", v |-> dv]
                        ELSE [h |-> h, err |-> IF IsValid(v) THEN "" ELSE "panic",
                              v |-> SetLenAndIndex(dv, a.i + 1, v)]
      [] OTHER -> [h |-> h, err |-> "", v |-> dv]

(* setElement answers the heap it leaves, the value dv has become and its  *)
(* outcome: "" (nil), the message of its error, or "panic".  On a slice    *)
(* reached through an interface or a map entry SetLen panics: the slice    *)
(* is not addressable.  A slice that is an element of a slice of slices    *)
(* is, and SetLen(idx + 1) makes idx its last element.                     *)
setElement(h, dv, p, v) ==
    CASE Kind(dv) = "map" -> [h |-> SetMapIndex(h, dv, p, v), err |-> "", v |-> dv]
      [] Kind(dv) = "slice" ->
           LET a == Atoi(p)
           IN IF ~a.ok \/ a.i < 0
              THEN [h |-> h, err |-> "is not a valid array or slice index", v |-> dv]
              ELSE IF a.i >= dv.n
                   THEN [h |-> h, err |-> "is out of the slice index bound", v |-> dv]
                   ELSE IF ~CanSet(dv)
                        THEN [h |-> h, err |-> "panic", v |-> dv]
                        ELSE [h |-> h, err |-> IF IsValid(v) THEN "" ELSE "panic",
                              v |-> SetLenAndIndex(dv, a.i + 1, v)]
      [] OTHER -> [h |-> h, err |-> "", v |-> dv]

(* what the value dv has become once its element at segment p, a slice     *)
(* held in dv's own storage, has become e: a map object holds the slice    *)
(* it was given, a slice's backing array the headers of its elements       *)
WithElement(h, dv, p, e) ==
    IF e = getElement(h, dv, p)
    THEN [h |-> h, v |-> dv]
    ELSE IF Kind(dv) = "map"
         THEN [h |-> SetMapIndex(h, dv, p, e), v |-> dv]
         ELSE [h |-> h,
               v |-> [k |-> "slice", n |-> dv.n, m |-> dv.m,
                      s |-> [j \in 1..Len(dv.s) |-> IF j = Atoi(p).i + 1 THEN e ELSE dv.s[j]]]]

(* the loop of Config.Set from part i of the path on, dv being the value   *)
(* reached so far; v is what dv has become                                 *)
RECURSIVE SetWalk(_, _, _, _, _)
SetWalk(h, dv, path, i, value) ==
    IF Kind(dv) \notin {"map", "slice"}
    THEN [h |-> h, err |-> "ConfigPathError", errPath |-> SubSeq(path, 1, i), v |-> dv]
    ELSE IF i = Len(path)
         THEN LET r == setElement(h, dv, path[i], value)
              IN IF r.err = "" THEN [h |-> r.h, err |-> "", errPath |-> <<>>, v |-> r.v]
                 ELSE IF r.err = "panic"
                      THEN [h |-> r.h, err |-> "panic", errPath |-> <<>>, v |-> r.v]
                      ELSE [h |-> r.h, err |-> "ConfigPathError", errPath |-> path, v |-> r.v]
         ELSE LET e == getElement(h, dv, path[i])
              IN IF IsValid(e)
                 THEN LET r == SetWalk(h, e, path, i + 1, value)
                          w == WithElement(r.h, dv, path[i], r.v)
                      IN [h |-> w.h, err |-> r.err, errPath |-> r.errPath, v |-> w.v]
                 ELSE LET nm == MakeMap(h)
                          r == setElement(nm.h, dv, path[i], nm.v)
                      IN IF r.err = ""
                         THEN LET t == SetWalk(r.h, nm.v, path, i + 1, value)
                              IN [h |-> t.h, err |-> t.err, errPath |-> t.errPath, v |-> r.v]
                         ELSE IF r.err = "panic"
                              THEN [h |-> r.h, err |-> "panic", errPath |-> <<>>, v |-> r.v]
                              ELSE [h |-> r.h, err |-> "ConfigPathError",
                                    errPath |-> SubSeq(path, 1, i), v |-> r.v]

(* Set, changed to leave a Config without data as it is *)
Set_NoInit(h, d0, path, value) ==
    LET r == SetWalk(h, d0, path, 1, value)
    IN [h |-> r.h, data |-> IF IsValid(d0) THEN r.v ELSE d0, err |-> r.err,
        errPath |-> r.errPath]

(* Config.Set: the heap and the data it leaves, and its outcome *)
Set(h, d0, path, value) ==
    LET nm == IF IsValid(d0) THEN [h |-> h, v |-> d0] ELSE MakeMap(h)
        r == SetWalk(nm.h, nm.v, path, 1, value)
    IN [h |-> r.h, data |-> r.v, err |-> r.err, errPath |-> r.errPath]

(* Config.SetData: the existing data is dropped, then the arguments are    *)
(* merged one after the other                                              *)
RECURSIVE MergeAll(_, _, _, _)
MergeAll(h, d0, args, ord) ==
    IF args = <<>>
    THEN [h |-> h, v |-> d0]
    ELSE LET r == merge(h, d0, Head(args), ord)
         IN MergeAll(r.h, r.v, Tail(args), ord)

(* SetData, changed to merge into the data it holds, as Load does *)
SetData_KeepsData(h, d0, args, ord) == MergeAll(h, d0, args, ord)

SetData(h, d0, args, ord) == MergeAll(h, Nil, args, ord)

(* the inputs of LoadJSON and Load: bytes that decode to the tree t, or    *)
(* that the comment stripper or the decoder rejects                        *)
JDoc(t) == [fault |-> "", t |-> t]
BadComment == [fault |-> "comment", t |-> Nil]
BadSyntax == [fault |-> "syntax", t |-> Nil]

(* Config.LoadJSON: each document is stripped of its comments, decoded     *)
(* and merged; the first error is returned, the earlier documents stay     *)
(* merged                                                                  *)
RECURSIVE LoadJSON(_, _, _, _)
LoadJSON(h, d0, docs, ord) ==
    IF docs = <<>>
    THEN [h |-> h, v |-> d0, err |-> "", n |-> 0]
    ELSE IF Head(docs).fault # ""
         THEN [h |-> h, v |-> d0, err |-> Head(docs).fault, n |-> 0]
         ELSE LET a == Alloc(h, Head(docs).t)
                  r == merge(a.h, d0, a.v, ord)
                  rest == LoadJSON(r.h, r.v, Tail(docs), ord)
              IN [rest EXCEPT !.n = rest.n + 1]

(* load: a file is read and decoded by the decoder of its extension *)
load(file) ==
    IF ~file.readable THEN [err |-> "read", t |-> Nil]
    ELSE IF file.ext \notin {".json", ".yaml", ".yml", ".toml"}
         THEN [err |-> "FileTypeError", t |-> Nil]
         ELSE IF file.doc.fault # "" THEN [err |-> file.doc.fault, t |-> Nil]
              ELSE [err |-> "", t |-> file.doc.t]

(* Config.Load *)
RECURSIVE Load(_, _, _, _)
Load(h, d0, files, ord) ==
    IF files = <<>>
    THEN [h |-> h, v |-> d0, err |-> "", n |-> 0]
    ELSE LET l == load(Head(files))
         IN IF l.err # ""
            THEN [h |-> h, v |-> d0, err |-> l.err, n |-> 0]
            ELSE LET a == Alloc(h, l.t)
                     r == merge(a.h, d0, a.v, ord)
                     rest == Load(r.h, r.v, Tail(files), ord)
                 IN [rest EXCEPT !.n = rest.n + 1]

----------------------------------------------------------------------------
(* Decoded JSON documents.  encoding/json decodes every number as a        *)
(* float64 (here in tenths) and builds a []interface{} by append, which    *)
(* leaves the capacity JSONCap(len).                                       *)

JSONCap(len) == IF len <= 2 THEN len ELSE 4
JNum(i) == MkFloat(10 * i)
JArr(elems) == MkSlice(elems, JSONCap(Len(elems)))
JObj1(k1, t1) == MkTree([x \in {k1} |-> t1])
JObj2(k1, t1, k2, t2) == MkTree([x \in {k1, k2} |-> IF x = k1 THEN t1 ELSE t2])

(* string tokens: "", "abc", "v1", "C1", "C2", "xyz", "123" *)
StrEmpty == 0
StrAbc == 1
StrV1 == 2
StrC1 == 3
StrC2 == 4
StrXyz == 5
Str123 == 6

----------------------------------------------------------------------------
(* The Go types of the values Configure fills in.  A type is the sequence  *)
(* of the parts reflect.Type.String() prints: the constructors "*", "[]",  *)
(* "[3]" and "map[string]" in front of the name of a base type.            *)

NoFields == [x \in {} |-> <<>>]

(* the struct types of the tests *)
DFields == [x \in {"E1", "E2"} |-> <<"string">>]
T1Fields == [x \in {"A1", "A2"} |-> IF x = "A1" THEN <<"string">> ELSE <<"int">>]
ObjFields ==
    [x \in {"A0", "A1", "A2", "A5", "A6", "A7", "A8"} |->
        CASE x = "A0" -> <<"string">>
          [] x = "A1" -> <<"bool">>
          [] x = "A2" -> <<"int">>
          [] x = "A5" -> <<"*", "bool">>
          [] x = "A6" -> <<"[]", "int">>
          [] x = "A7" -> <<"map[string]", "int">>
          [] OTHER -> <<"map[string]", "interface {}">>]
(* a struct with a field that is not exported *)
UFields == [x \in {"A1", "a2"} |-> IF x = "A1" THEN <<"bool">> ELSE <<"int">>]

(* what reflect tells of a type: its Kind, Elem, Len, fields and NumMethod *)
TypeOf(t) ==
    LET desc(k, elem, len, fields, nm) ==
            [k |-> k, elem |-> elem, len |-> len, fields |-> fields, nm |-> nm]
    IN CASE Head(t) = "*" -> desc("ptr", Tail(t), 0, NoFields, 0)
         [] Head(t) = "[]" -> desc("slice", Tail(t), 0, NoFields, 0)
         [] Head(t) = "[3]" -> desc("array", Tail(t), 3, NoFields, 0)
         [] Head(t) = "map[string]" -> desc("map", Tail(t), 0, NoFields, 0)
         [] Head(t) \in {"bool", "int", "uint", "float64", "string"} ->
              desc(Head(t), <<>>, 0, NoFields, 0)
         [] Head(t) = "interface {}" -> desc("interface", <<>>, 0, NoFields, 0)
         [] Head(t) = "C" -> desc("interface", <<>>, 0, NoFields, 1)
         [] Head(t) = "D" -> desc("struct", <<>>, 0, DFields, 0)
         [] Head(t) = "T1" -> desc("struct", <<>>, 0, T1Fields, 0)
         [] Head(t) = "Obj" -> desc("struct", <<>>, 0, ObjFields, 0)
         [] Head(t) = "U" -> desc("struct", <<>>, 0, UFields, 0)
         [] OTHER -> desc("invalid", <<>>, 0, NoFields, 0)

(* reflect.Type.Implements: *D has the method Foo of C *)
Implements(t, iface) ==
    \/ TypeOf(iface).nm = 0
    \/ t = <<"*", "D">> /\ iface = <<"C">>

(* a field can be set when its name is exported *)
Exported(name) == name \notin {"a", "a2", "b", "type", "zz"}

(* the "type" field name *)
typeKey == "type"

(* strconv.Itoa of an index *)
Itoa(i) ==
    CASE i = 0 -> "0" [] i = 1 -> "1" [] i = 2 -> "2" [] i = 3 -> "3" [] OTHER -> "4"

----------------------------------------------------------------------------
(* Target values.  A value of a Go type is a record [t, z, n, s, f, p,     *)
(* raw]:                                                                   *)
(*   t    its type                                                         *)
(*   z    TRUE for a nil pointer, interface, map or slice                  *)
(*   n    the payload of a scalar (as in a dynamic value); the capacity    *)
(*        of a slice                                                       *)
(*   s    the elements of an array or slice                                *)
(*   f    the fields of a struct, the entries of a map                     *)
(*   p    <<x>> for a pointer to x and for an interface holding the typed  *)
(*        value x                                                          *)
(*   raw  the dynamic value an interface holds after v.Set(config)         *)

TV(t) == [t |-> t, z |-> FALSE, n |-> 0, s |-> <<>>, f |-> <<>>, p |-> <<>>, raw |-> Nil]

(* reflect.ValueOf(nil): the argument of Configure when it is given nil *)
NilArg == TV(<<"nil">>)

(* reflect.Zero *)
RECURSIVE Zero(_)
Zero(t) ==
    LET d == TypeOf(t)
    IN CASE d.k = "array" -> [TV(t) EXCEPT !.s = [i \in 1..d.len |-> Zero(d.elem)]]
         [] d.k = "struct" ->
              [TV(t) EXCEPT !.f = [x \in DOMAIN d.fields |-> Zero(d.fields[x])]]
         [] d.k \in {"slice", "map", "ptr", "interface"} -> [TV(t) EXCEPT !.z = TRUE]
         [] OTHER -> TV(t)

Scalar(t, n) == [TV(t) EXCEPT !.n = n]
PtrTo(x) == [TV(<<"*">> \o x.t) EXCEPT !.p = <<x>>]
Holding(t, x) == [TV(t) EXCEPT !.p = <<x>>]
ArrayOf(t, elems) == [TV(t) EXCEPT !.s = elems]
SliceOf(t, elems, cap) == [TV(t) EXCEPT !.s = elems, !.n = cap]
MapOf(t, entries) == [TV(t) EXCEPT !.f = entries]
StructOf(t, fields) == [TV(t) EXCEPT !.f = fields]

(* the value v with x written through v.Index(i), counted from zero, and   *)
(* through v.FieldByName(name)                                             *)
WithIndex(v, i, x) ==
    [v EXCEPT !.s = [j \in 1..Len(v.s) |-> IF j = i + 1 THEN x ELSE v.s[j]]]
WithField(v, name, x) ==
    [v EXCEPT !.f = [y \in DOMAIN v.f |-> IF y = name THEN x ELSE v.f[y]]]

(* reflect.Value.Cap *)
Cap(v) == IF TypeOf(v.t).k = "array" THEN Len(v.s) ELSE v.n

(* v.Set(config) on an interface: it holds the dynamic value itself *)
SetRaw(v, config) == [TV(v.t) EXCEPT !.raw = config]

----------------------------------------------------------------------------
(* The type registry (configure.go) *)

(* a provider as reflect sees it: its Kind, NumIn and NumOut, and the      *)
(* value a call of it returns                                              *)
Provider(kind, numIn, numOut, makes) ==
    [kind |-> kind, numIn |-> numIn, numOut |-> numOut, makes |-> makes]
NoProvider == Provider("invalid", 0, 0, NilArg)

(* Register, changed to keep the provider a name already has *)
Register_KeepsFirst(reg, name, provider) ==
    IF provider.kind # "func" \/ provider.numOut # 1
    THEN [types |-> reg, err |-> "ProviderError"]
    ELSE [types |-> [x \in (DOMAIN reg) \cup {name} |->
                        IF x \in DOMAIN reg THEN reg[x] ELSE provider],
          err |-> ""]

(* Config.Register: the registry it leaves and its outcome *)
Register(reg, name, provider) ==
    IF provider.kind # "func" \/ provider.numOut # 1
    THEN [types |-> reg, err |-> "ProviderError"]
    ELSE [types |-> [x \in (DOMAIN reg) \cup {name} |->
                        IF x = name THEN provider ELSE reg[x]],
          err |-> ""]

----------------------------------------------------------------------------
(* Configure (configure.go).  c is the Config read by the walk: its heap   *)
(* c.h and its registry c.types.  Every function answers the target value  *)
(* it leaves, its outcome (err "" for nil, "ConfigValueError" with its     *)
(* path and message, or "panic"), and the providers it has called.         *)

Done(v, calls) == [v |-> v, err |-> "", path |-> <<>>, msg |-> "", calls |-> calls]
ValueError(v, path, msg, calls) ==
    [v |-> v, err |-> "ConfigValueError", path |-> path, msg |-> msg, calls |-> calls]
Panic(v, calls) == [v |-> v, err |-> "panic", path |-> <<>>, msg |-> "", calls |-> calls]

(* configureScalar, changed to reset a target of every kind on a null *)
configureScalar_NullResets(v, config, path) ==
    LET d == TypeOf(v.t)
    IN IF ~IsValid(config)
       THEN Done(Zero(v.t), <<>>)
       ELSE IF d.k = "interface" /\ d.nm = 0
            THEN Done(SetRaw(v, config), <<>>)
            ELSE IF ConvertibleTo(config.k, d.k)
                 THEN Done(Scalar(v.t, Convert(config, d.k).n), <<>>)
                 ELSE ValueError(v, path, "cannot be used to configure", <<>>)

(* configureScalar *)
configureScalar(v, config, path) ==
    LET d == TypeOf(v.t)
    IN IF ~IsValid(config)
       THEN IF d.k \in {"interface", "ptr", "map", "slice"}
            THEN Done(Zero(v.t), <<>>)
            ELSE Done(v, <<>>)
       ELSE IF d.k = "interface" /\ d.nm = 0
            THEN Done(SetRaw(v, config), <<>>)
            ELSE IF ConvertibleTo(config.k, d.k)
                 THEN Done(Scalar(v.t, Convert(config, d.k).n), <<>>)
                 ELSE ValueError(v, path, "cannot be used to configure", <<>>)

RECURSIVE configure(_, _, _, _, _)
RECURSIVE configureElems(_, _, _, _, _, _, _, _)
RECURSIVE configureMapKeys(_, _, _, _, _, _, _)
RECURSIVE configureFields(_, _, _, _, _, _, _)

(* the loop of configureArray over the elements i..n-1; v.Index(i) panics  *)
(* on a slice shorter than i+1                                             *)
configureElems(c, v, config, path, i, n, ord, calls) ==
    IF i >= n
    THEN Done(v, calls)
    ELSE IF i >= Len(v.s)
         THEN Panic(v, calls)
         ELSE LET r == configure(c, v.s[i + 1], config.s[i + 1],
                                 Append(path, Itoa(i)), ord)
                  v1 == WithIndex(v, i, r.v)
              IN IF r.err # ""
                 THEN [r EXCEPT !.v = v1, !.calls = calls \o r.calls]
                 ELSE configureElems(c, v1, config, path, i + 1, n, ord,
                                     calls \o r.calls)

(* configureArray, changed to leave the elements of an array past the     *)
(* last one it binds as they were                                          *)
configureArray_KeepsRest(c, v, config, path, ord) ==
    LET d == TypeOf(v.t)
    IN IF d.k = "interface" /\ d.nm = 0
       THEN Done(SetRaw(v, config), <<>>)
       ELSE IF d.k \notin {"array", "slice"}
            THEN ValueError(v, path, "cannot be used to configure", <<>>)
            ELSE LET len == Len(config.s)
                     grown == IF d.k = "slice" /\ Cap(v) < len
                              THEN SliceOf(v.t,
                                           [i \in 1..len |->
                                               IF i <= Len(v.s) THEN v.s[i]
                                               ELSE Zero(d.elem)],
                                           len)
                              ELSE v
                     n == IF len > Cap(grown) THEN Cap(grown) ELSE len
                     r == configureElems(c, grown, config, path, 0, n, ord, <<>>)
                 IN IF r.err # "" \/ n >= Len(r.v.s) \/ d.k = "array"
                    THEN r
                    ELSE [r EXCEPT !.v = [r.v EXCEPT !.s = [i \in 1..n |-> r.v.s[i]]]]

(* configureArray, changed to fill a slice longer than the source with    *)
(* zero values, as it does an array, instead of shortening it              *)
configureArray_ZeroFills(c, v, config, path, ord) ==
    LET d == TypeOf(v.t)
    IN IF d.k = "interface" /\ d.nm = 0
       THEN Done(SetRaw(v, config), <<>>)
       ELSE IF d.k \notin {"array", "slice"}
            THEN ValueError(v, path, "cannot be used to configure", <<>>)
            ELSE LET len == Len(config.s)
                     grown == IF d.k = "slice" /\ Cap(v) < len
                              THEN SliceOf(v.t,
                                           [i \in 1..len |->
                                               IF i <= Len(v.s) THEN v.s[i]
                                               ELSE Zero(d.elem)],
                                           len)
                              ELSE v
                     n == IF len > Cap(grown) THEN Cap(grown) ELSE len
                     r == configureElems(c, grown, config, path, 0, n, ord, <<>>)
                     rest == [i \in 1..Len(r.v.s) |->
                                 IF i <= n THEN r.v.s[i] ELSE Zero(d.elem)]
                 IN IF r.err # "" \/ n >= Len(r.v.s)
                    THEN r
                    ELSE [r EXCEPT !.v = [r.v EXCEPT !.s = rest]]

configureArray(c, v, config, path, ord) ==
    LET d == TypeOf(v.t)
    IN IF d.k = "interface" /\ d.nm = 0
       THEN Done(SetRaw(v, config), <<>>)
       ELSE IF d.k \notin {"array", "slice"}
            THEN ValueError(v, path, "cannot be used to configure", <<>>)
            ELSE LET len == Len(config.s)
                     grown == IF d.k = "slice" /\ Cap(v) < len
                              THEN SliceOf(v.t,
                                           [i \in 1..len |->
                                               IF i <= Len(v.s) THEN v.s[i]
                                               ELSE Zero(d.elem)],
                                           len)
                              ELSE v
                     n == IF len > Cap(grown) THEN Cap(grown) ELSE len
                     r == configureElems(c, grown, config, path, 0, n, ord, <<>>)
                     rest == [i \in 1..Len(r.v.s) |->
                                 IF i <= n THEN r.v.s[i] ELSE Zero(d.elem)]
                 IN IF r.err # "" \/ n >= Len(r.v.s)
                    THEN r
                    ELSE IF d.k = "array"
                         THEN [r EXCEPT !.v = [r.v EXCEPT !.s = rest]]
                         ELSE [r EXCEPT !.v = [r.v EXCEPT !.s = [i \in 1..n |-> r.v.s[i]]]]

(* configureMap's loop, changed to bind onto the entry the map already    *)
(* has under the key, when it has one                                      *)
configureMapKeys_OntoEntry(c, v, config, path, keys, ord, calls) ==
    IF keys = <<>>
    THEN Done(v, calls)
    ELSE LET k == Head(keys)
             r == configure(c, IF k \in DOMAIN v.f THEN v.f[k]
                               ELSE Zero(TypeOf(v.t).elem),
                            mapIndex(c.h, config, k), Append(path, k), ord)
             v1 == [v EXCEPT !.f = [x \in (DOMAIN v.f) \cup {k} |->
                                       IF x = k THEN r.v ELSE v.f[x]]]
         IN IF r.err # ""
            THEN [r EXCEPT !.v = v, !.calls = calls \o r.calls]
            ELSE configureMapKeys(c, v1, config, path, Tail(keys), ord,
                                  calls \o r.calls)

(* the loop of configureMap over the keys of config still to visit *)
configureMapKeys(c, v, config, path, keys, ord, calls) ==
    IF keys = <<>>
    THEN Done(v, calls)
    ELSE LET k == Head(keys)
             r == configure(c, Zero(TypeOf(v.t).elem), mapIndex(c.h, config, k),
                            Append(path, k), ord)
             v1 == [v EXCEPT !.f = [x \in (DOMAIN v.f) \cup {k} |->
                                       IF x = k THEN r.v ELSE v.f[x]]]
         IN IF r.err # ""
            THEN [r EXCEPT !.v = v, !.calls = calls \o r.calls]
            ELSE configureMapKeys(c, v1, config, path, Tail(keys), ord,
                                  calls \o r.calls)

configureMap(c, v, config, path, ord) ==
    LET made == IF v.z THEN MapOf(v.t, [x \in {} |-> NilArg]) ELSE v
    IN configureMapKeys(c, made, config, path, MapKeys(c.h, config, ord), ord, <<>>)

(* configureStruct's loop, changed to go on with the keys that follow a    *)
(* key that fails, and to return the first error at the end                *)
configureFields_GoesOn(c, v, config, path, keys, ord, calls) ==
    IF keys = <<>>
    THEN Done(v, calls)
    ELSE LET k == Head(keys)
         IN IF k = typeKey
            THEN configureFields(c, v, config, path, Tail(keys), ord, calls)
            ELSE IF k \notin DOMAIN TypeOf(v.t).fields
                 THEN ValueError(v, path, "field not found in struct", calls)
                 ELSE IF ~Exported(k)
                      THEN ValueError(v, path, "field cannot be set", calls)
                      ELSE LET r == configure(c, v.f[k], mapIndex(c.h, config, k),
                                              Append(path, k), ord)
                               v1 == WithField(v, k, r.v)
                               rest == configureFields(c, v1, config, path, Tail(keys),
                                                       ord, calls \o r.calls)
                           IN IF r.err # ""
                              THEN [r EXCEPT !.v = rest.v, !.calls = rest.calls]
                              ELSE rest

(* the loop of configureStruct over the keys of config still to visit; a   *)
(* field that is a pointer is allocated and followed by configure          *)
configureFields(c, v, config, path, keys, ord, calls) ==
    IF keys = <<>>
    THEN Done(v, calls)
    ELSE LET k == Head(keys)
         IN IF k = typeKey
            THEN configureFields(c, v, config, path, Tail(keys), ord, calls)
            ELSE IF k \notin DOMAIN TypeOf(v.t).fields
                 THEN ValueError(v, path, "field not found in struct", calls)
                 ELSE IF ~Exported(k)
                      THEN ValueError(v, path, "field cannot be set", calls)
                      ELSE LET r == configure(c, v.f[k], mapIndex(c.h, config, k),
                                              Append(path, k), ord)
                               v1 == WithField(v, k, r.v)
                           IN IF r.err # ""
                              THEN [r EXCEPT !.v = v1, !.calls = calls \o r.calls]
                              ELSE configureFields(c, v1, config, path, Tail(keys),
                                                   ord, calls \o r.calls)

configureStruct(c, v, config, path, ord) ==
    configureFields(c, v, config, path, MapKeys(c.h, config, ord), ord, <<>>)

(* configureInterface, changed to look for a "type" whatever the          *)
(* interface is                                                            *)
configureInterface_AlwaysTyped(c, v, config, path, ord) ==
    LET d == TypeOf(v.t)
        tk == mapIndex(c.h, config, typeKey)
    IN IF ~IsValid(tk) THEN ValueError(v, path, "missing the type element", <<>>)
       ELSE IF tk.k # "string" THEN ValueError(v, path, "type must be a string", <<>>)
       ELSE IF tk.n \notin DOMAIN c.types THEN ValueError(v, path, "type is unknown", <<>>)
       ELSE LET builder == c.types[tk.n]
                object == builder.makes
            IN IF builder.numIn # 0 THEN Panic(v, <<>>)
               ELSE IF TypeOf(object.t).k # "ptr" \/ object.z
                    THEN Panic(v, <<builder>>)
                    ELSE IF ~Implements(object.t, v.t)
                         THEN ValueError(v, path, "does not implement", <<builder>>)
                         ELSE LET r == configureStruct(c, object.p[1], config, path, ord)
                              IN [r EXCEPT !.v = Holding(v.t, PtrTo(r.v)),
                                           !.calls = <<builder>> \o r.calls]

(* configureInterface.  builder.Call panics when the provider takes        *)
(* arguments; indirect(object) panics on a nil pointer, which it cannot    *)
(* set, and s.Addr() on an object that is no pointer.                      *)
configureInterface(c, v, config, path, ord) ==
    LET d == TypeOf(v.t)
        tk == mapIndex(c.h, config, typeKey)
    IN IF d.nm = 0 THEN Done(SetRaw(v, config), <<>>)
       ELSE IF ~IsValid(tk) THEN ValueError(v, path, "missing the type element", <<>>)
       ELSE IF tk.k # "string" THEN ValueError(v, path, "type must be a string", <<>>)
       ELSE IF tk.n \notin DOMAIN c.types THEN ValueError(v, path, "type is unknown", <<>>)
       ELSE LET builder == c.types[tk.n]
                object == builder.makes
            IN IF builder.numIn # 0 THEN Panic(v, <<>>)
               ELSE IF TypeOf(object.t).k # "ptr" \/ object.z
                    THEN Panic(v, <<builder>>)
                    ELSE IF ~Implements(object.t, v.t)
                         THEN ValueError(v, path, "does not implement", <<builder>>)
                         ELSE LET r == configureStruct(c, object.p[1], config, path, ord)
                              IN [r EXCEPT !.v = Holding(v.t, PtrTo(r.v)),
                                           !.calls = <<builder>> \o r.calls]

(* configure, changed not to follow the pointer an interface holds *)
configure_NoUnwrap(c, v, config, path, ord) ==
    LET d == TypeOf(v.t)
    IN CASE d.k = "ptr" ->
              LET r == configure(c, IF v.z THEN Zero(d.elem) ELSE v.p[1],
                                 config, path, ord)
              IN [r EXCEPT !.v = PtrTo(r.v)]
         [] OTHER ->
              CASE config.k = "slice" -> configureArray(c, v, config, path, ord)
                [] config.k = "map" ->
                     CASE d.k = "interface" -> configureInterface(c, v, config, path, ord)
                       [] d.k = "struct" -> configureStruct(c, v, config, path, ord)
                       [] d.k = "map" -> configureMap(c, v, config, path, ord)
                       [] OTHER -> ValueError(v, path, "a map cannot be used to configure",
                                              <<>>)
                [] OTHER -> configureScalar(v, config, path)

(* configure: indirect follows the pointers, allocating the nil ones, and  *)
(* the pointer an interface holds; then the kind of config selects         *)
configure(c, v, config, path, ord) ==
    LET d == TypeOf(v.t)
    IN CASE d.k = "ptr" ->
              LET r == configure(c, IF v.z THEN Zero(d.elem) ELSE v.p[1],
                                 config, path, ord)
              IN [r EXCEPT !.v = PtrTo(r.v)]
         [] /\ d.k = "interface" /\ ~v.z /\ v.p # <<>>
            /\ TypeOf(v.p[1].t).k = "ptr" /\ ~v.p[1].z ->
              LET r == configure(c, v.p[1], config, path, ord)
              IN [r EXCEPT !.v = Holding(v.t, r.v)]
         [] OTHER ->
              CASE config.k = "slice" -> configureArray(c, v, config, path, ord)
                [] config.k = "map" ->
                     CASE d.k = "interface" -> configureInterface(c, v, config, path, ord)
                       [] d.k = "struct" -> configureStruct(c, v, config, path, ord)
                       [] d.k = "map" -> configureMap(c, v, config, path, ord)
                       [] OTHER -> ValueError(v, path, "a map cannot be used to configure",
                                              <<>>)
                [] OTHER -> configureScalar(v, config, path)

(* Configure, changed to accept a nil pointer and allocate its target *)
Configure_NilTarget(c, d0, rv, path, ord) ==
    IF TypeOf(rv.t).k # "ptr"
    THEN [Done(rv, <<>>) EXCEPT !.err = "ConfigTargetError"]
    ELSE LET config == IF path = <<>> THEN d0 ELSE Get(c.h, d0, path, Nil)
         IN IF path # <<>> /\ ~IsValid(config)
            THEN [Done(rv, <<>>) EXCEPT !.err = "ConfigPathError", !.path = path,
                                        !.msg = "no configuration value was found"]
            ELSE configure(c, rv, config, path, ord)

(* Config.Configure: rv is the argument v (a pointer to the target), path  *)
(* the optional path (<<>> when none is given)                             *)
Configure(c, d0, rv, path, ord) ==
    IF TypeOf(rv.t).k # "ptr" \/ rv.z
    THEN [Done(rv, <<>>) EXCEPT !.err = "ConfigTargetError"]
    ELSE LET config == IF path = <<>> THEN d0 ELSE Get(c.h, d0, path, Nil)
         IN IF path # <<>> /\ ~IsValid(config)
            THEN [Done(rv, <<>>) EXCEPT !.err = "ConfigPathError", !.path = path,
                                        !.msg = "no configuration value was found"]
            ELSE configure(c, rv, config, path, ord)

----------------------------------------------------------------------------
(* The record of the last call *)

NoCall ==
    [op |-> "none", args |-> <<>>, path |-> <<>>, val |-> Nil, def |-> Nil,
     res |-> Nil, err |-> "", errPath |-> <<>>, msg |-> "",
     name |-> 0, prov |-> NoProvider, tgt |-> NilArg, out |-> NilArg, calls |-> <<>>,
     ord |-> <<>>,
     pre |-> [heap |-> <<>>, data |-> Nil, types |-> <<>>]]

----------------------------------------------------------------------------
(* The inputs of the calls *)

(* the maps the caller builds before it makes its calls, and keeps *)
HeldTree1 == MkTree([x \in {"a", "b"} |->
                 IF x = "a" THEN MkTree([y \in {"a", "b"} |-> MkInt(IF y = "a" THEN 1 ELSE 2)])
                 ELSE MkInt(3)])
HeldTree2 == MkTree([x \in {"a", "b"} |->
                 IF x = "a" THEN MkTree([y \in {"b"} |-> MkInt(4)])
                 ELSE MkTree([y \in {"a"} |-> MkInt(30)])])

(* JSON documents *)
DocJ1 == JObj2("a", JNum(100), "b", JObj2("a", MkStr(StrV1), "b", JObj1("a", JNum(300))))
DocJ2 == JObj2("a", Nil, "b", JObj2("a", MkBool(TRUE), "b", MkFloat(13)))
DocJ3 == JObj2("a", JArr(<<MkStr(StrAbc), JObj1("a", JNum(200))>>), "b", Nil)

JSONArgs ==
    { <<JDoc(DocJ1)>>, <<JDoc(DocJ2)>>, <<JDoc(DocJ3)>>, <<JDoc(DocJ1), JDoc(DocJ2)>>,
      <<JDoc(Nil)>>, <<JDoc(DocJ1), BadSyntax>>, <<BadComment, JDoc(DocJ1)>> }

(* files: YAML decodes an integer as an int, TOML as an int64 *)
FileJ1 == [ext |-> ".json", readable |-> TRUE, doc |-> JDoc(DocJ1)]
FileJ2 == [ext |-> ".json", readable |-> TRUE, doc |-> JDoc(DocJ2)]
FileYaml == [ext |-> ".yaml", readable |-> TRUE,
             doc |-> JDoc(JObj2("a", MkInt(3), "b", JObj1("b", MkStr(StrAbc))))]
FileToml == [ext |-> ".toml", readable |-> TRUE,
             doc |-> JDoc(JObj2("a", MkInt64(3), "b", JObj1("a", MkFloat(21))))]
FileTxt == [ext |-> ".txt", readable |-> TRUE, doc |-> JDoc(DocJ1)]
FileMissing == [ext |-> ".json", readable |-> FALSE, doc |-> JDoc(Nil)]
FileBad == [ext |-> ".yml", readable |-> TRUE, doc |-> BadSyntax]

FileArgs ==
    { <<FileJ1>>, <<FileJ1, FileJ2>>, <<FileYaml>>, <<FileToml>>, <<FileJ1, FileTxt>>,
      <<FileMissing>>, <<FileJ2, FileBad>> }

(* the arguments of SetData: nil and the caller's maps, up to three *)
DataVals == {Nil} \cup {held[i] : i \in DOMAIN held}
SetDataArgs ==
    {<<>>} \cup {<<x>> : x \in DataVals} \cup {<<x, y>> : x \in DataVals, y \in DataVals}
           \cup {<<x, y, x>> : x \in DataVals, y \in DataVals}

(* dotted paths *)
Paths ==
    { <<"a">>, <<"b">>, <<"a", "a">>, <<"a", "b">>, <<"b", "a">>, <<"b", "b", "a">>,
      <<"a", "0">>, <<"a", "1">>, <<"a", "1", "a">>, <<"a", "2">>, <<"a", "-1">>,
      <<"a", "2", "a">>, <<"a", "0", "0">>, <<"a", "0", "1">>, <<"a", "1", "1">>,
      <<"a", "1", "2">> }

(* default values of Get: none (nil), and one of each type *)
Defaults == {Nil, MkInt(0), MkInt64(200), MkFloat(23), MkStr(StrAbc), MkBool(FALSE)}
TypedDefaults == Defaults \ {Nil}

(* values given to Set *)
SetVals == {MkInt(100), MkBool(TRUE), Nil}

----------------------------------------------------------------------------
(* The calls on a Config *)

Pre == [heap |-> heap, data |-> data, types |-> types]

(* New, by a caller that has built two maps *)
Init ==
    LET r1 == Alloc(<<>>, HeldTree1)
        r2 == Alloc(r1.h, HeldTree2)
    IN /\ heap = r2.h
       /\ held = <<r1.v, r2.v>>
       /\ data = Nil
       /\ types = EmptyMap
       /\ last = NoCall
       /\ srcs = [trees |-> <<>>, pure |-> TRUE]
       /\ steps = 0

SetDataCall ==
    /\ steps < MaxSteps
    /\ \E args \in SetDataArgs, ord \in KeyOrders :
        LET r == SetData(heap, data, args, ord)
        IN /\ heap' = r.h
           /\ data' = r.v
           /\ last' = [NoCall EXCEPT !.op = "SetData", !.args = args, !.pre = Pre]
           /\ srcs' = [trees |-> [i \in DOMAIN args |-> Tree(heap, args[i])],
                       pure |-> TRUE]
    /\ steps' = steps + 1
    /\ UNCHANGED <<types, held>>

LoadJSONCall ==
    /\ steps < MaxSteps
    /\ \E docs \in JSONArgs, ord \in KeyOrders :
        LET r == LoadJSON(heap, data, docs, ord)
        IN /\ heap' = r.h
           /\ data' = r.v
           /\ last' = [NoCall EXCEPT !.op = "LoadJSON", !.args = docs, !.err = r.err,
                                     !.pre = Pre]
           /\ srcs' = [srcs EXCEPT !.trees = @ \o [i \in 1..r.n |-> docs[i].t]]
    /\ steps' = steps + 1
    /\ UNCHANGED <<types, held>>

LoadCall ==
    /\ steps < MaxSteps
    /\ \E files \in FileArgs, ord \in KeyOrders :
        LET r == Load(heap, data, files, ord)
        IN /\ heap' = r.h
           /\ data' = r.v
           /\ last' = [NoCall EXCEPT !.op = "Load", !.args = files, !.err = r.err,
                                     !.pre = Pre]
           /\ srcs' = [srcs EXCEPT !.trees = @ \o [i \in 1..r.n |-> files[i].doc.t]]
    /\ steps' = steps + 1
    /\ UNCHANGED <<types, held>>

(* Config.Data: the data, or nil when none was ever loaded *)
DataCall ==
    /\ steps < MaxSteps
    /\ last' = [NoCall EXCEPT !.op = "Data", !.res = data, !.pre = Pre]
    /\ steps' = steps + 1
    /\ UNCHANGED <<heap, data, types, held, srcs>>

GetCall ==
    /\ steps < MaxSteps
    /\ \E path \in Paths, d \in Defaults :
        last' = [NoCall EXCEPT !.op = "Get", !.path = path, !.def = d,
                               !.res = Get(heap, data, path, d), !.pre = Pre]
    /\ steps' = steps + 1
    /\ UNCHANGED <<heap, data, types, held, srcs>>

GetTypedCall ==
    /\ steps < MaxSteps
    /\ \E path \in Paths, d \in TypedDefaults :
        LET r == GetTyped(heap, data, path, d)
        IN last' = [NoCall EXCEPT !.op = "GetTyped", !.path = path, !.def = d,
                                  !.res = r.v, !.err = r.err, !.pre = Pre]
    /\ steps' = steps + 1
    /\ UNCHANGED <<heap, data, types, held, srcs>>

SetCall ==
    /\ steps < MaxSteps
    /\ \E path \in Paths, value \in SetVals :
        LET r == Set(heap, data, path, value)
        IN /\ heap' = r.h
           /\ data' = r.data
           /\ last' = [NoCall EXCEPT !.op = "Set", !.path = path, !.val = value,
                                     !.err = r.err, !.errPath = r.errPath, !.pre = Pre]
    /\ srcs' = [srcs EXCEPT !.pure = FALSE]
    /\ steps' = steps + 1
    /\ UNCHANGED <<types, held>>

(* loading and replacing the data *)
NextLoad == SetDataCall \/ LoadJSONCall \/ LoadCall \/ DataCall
SpecLoad == Init /\ [][NextLoad]_vars

(* reading and writing by path *)
NextPath == LoadJSONCall \/ SetCall \/ GetCall \/ GetTypedCall
SpecPath == Init /\ [][NextPath]_vars

(* a value the caller builds for SetData:                                  *)
(*   map[string]interface{}{"a": [][]interface{}{{1, 2, 3}, s}, "b": 7}    *)
(* where s is make([]interface{}, 1, 2) with s[0] = 4                      *)
SeqTree ==
    JObj2("a", MkSlice(<<MkSlot(<<MkInt(1), MkInt(2), MkInt(3)>>, 3),
                         MkSlot(<<MkInt(4)>>, 2)>>, 2),
          "b", MkInt(7))

(* New, then nothing, SetData of the caller's value or LoadJSON of one     *)
(* document                                                                *)
InitSeq ==
    \E l \in {[trees |-> <<>>, r |-> [h |-> <<>>, v |-> Nil]]}
              \cup {[trees |-> <<doc>>, r |-> LoadJSON(<<>>, Nil, <<JDoc(doc)>>, KeyList)] :
                       doc \in {DocJ1, DocJ3}}
              \cup {LET a == Alloc(<<>>, SeqTree)
                    IN [trees |-> <<SeqTree>>, r |-> SetData(a.h, Nil, <<a.v>>, KeyList)]} :
        /\ heap = l.r.h
        /\ data = l.r.v
        /\ held = <<>>
        /\ types = EmptyMap
        /\ last = NoCall
        /\ srcs = [trees |-> l.trees, pure |-> TRUE]
        /\ steps = 0

(* writing by path into data that holds sequences *)
NextSeq == SetCall \/ GetCall
SpecSeq == InitSeq /\ [][NextSeq]_vars

----------------------------------------------------------------------------
(* merge called on two decoded documents, as TestMerge does *)

MergeTrees ==
    { Nil, JNum(123), MkBool(TRUE),
      JArr(<<JNum(1), JNum(3), JNum(2)>>), JArr(<<JNum(100), JNum(200)>>),
      JObj1("a", JNum(1)), JObj1("a", MkBool(TRUE)), JObj1("b", JNum(2)),
      JObj2("a", JNum(1), "b", JNum(2)), JObj2("a", JNum(3), "b", Nil),
      JObj2("a", JObj2("a", JNum(1), "b", JNum(2)), "b", JNum(3)),
      JObj2("a", JObj1("b", JNum(4)), "b", JNum(30)),
      JObj1("a", JArr(<<JNum(1), JNum(2)>>)),
      JObj1("a", JArr(<<JNum(100), JNum(200)>>)),
      JObj1("a", Nil), JObj1("a", JObj1("b", Nil)), MkTree(EmptyMap) }

InitMerge ==
    \E t1 \in MergeTrees, t2 \in MergeTrees :
        LET r1 == Alloc(<<>>, t1)
            r2 == Alloc(r1.h, t2)
        IN /\ heap = r2.h
           /\ held = <<r1.v, r2.v>>
           /\ data = Nil
           /\ types = EmptyMap
           /\ last = NoCall
           /\ srcs = [trees |-> <<>>, pure |-> TRUE]
           /\ steps = 0

MergeCall ==
    /\ last.op = "none"
    /\ \E ord \in KeyOrders :
        LET r == merge(heap, held[1], held[2], ord)
        IN /\ heap' = r.h
           /\ last' = [NoCall EXCEPT !.op = "merge", !.args = held, !.res = r.v,
                                     !.pre = Pre]
    /\ steps' = steps + 1
    /\ UNCHANGED <<data, types, held, srcs>>

NextMerge == MergeCall

SpecMerge == InitMerge /\ [][NextMerge]_vars

----------------------------------------------------------------------------
(* Register and Configure on a Config that has loaded one JSON document,   *)
(* as the tests of configure_test.go do, or one YAML file                  *)

(* a JSON object of the keys ks with the values vs *)
JObj(ks, vs) ==
    MkTree([x \in {ks[i] : i \in DOMAIN ks} |-> vs[CHOOSE i \in DOMAIN ks : ks[i] = x]])

DocTyped == JObj2("type", MkStr(StrC1), "E1", MkStr(StrAbc))
DocObj ==
    JObj(<<"A1", "A2", "A5", "A6", "A7", "A8">>,
         <<MkBool(TRUE), JNum(100), MkBool(TRUE), JArr(<<JNum(3), JNum(2)>>),
           JObj2("a", JNum(1), "b", JNum(3)), JObj2("a", JNum(1), "b", MkStr(StrAbc))>>)
DocNested ==
    JObj2("a", JObj2("type", MkStr(StrC2), "E2", MkStr(StrAbc)),
          "b", JArr(<<DocTyped, JObj1("type", MkStr(StrC2))>>))

BindDocs ==
    { MkBool(TRUE), MkFloat(106), MkStr(StrAbc), Nil,
      JArr(<<JNum(1), JNum(3), JNum(2), JNum(4)>>), JArr(<<JNum(1), JNum(3)>>),
      JArr(<<JNum(10), JNum(30), JNum(20)>>),
      JArr(<<JNum(1), MkStr(StrAbc), Nil>>),
      DocTyped, JObj1("E1", MkStr(StrAbc)), JObj2("E1", MkStr(StrAbc), "zz", JNum(1)),
      JObj2("type", JNum(1), "E1", MkStr(StrAbc)),
      DocObj, JObj2("A1", MkStr(StrAbc), "A2", JNum(100)),
      JObj2("A1", MkBool(TRUE), "a2", JNum(1)), DocNested,
      JObj2("a", Nil, "b", JNum(3)) }

(* the names types are registered under *)
TypeNames == {StrC1, StrC2}

(* providers: T0, T1 and "abc" of TestConfigure, func() *D { return &D{} } *)
(* and its like, a function with an argument, and func() *T1               *)
ProvT0 == Provider("func", 0, 1, Scalar(<<"string">>, StrEmpty))
ProvT1 == Provider("func", 0, 2, NilArg)
ProvAbc == Provider("string", 0, 0, NilArg)
ProvD == Provider("func", 0, 1, PtrTo(Zero(<<"D">>)))
ProvD2 == Provider("func", 0, 1,
                   PtrTo(StructOf(<<"D">>, [x \in {"E1", "E2"} |->
                             Scalar(<<"string">>, IF x = "E1" THEN StrEmpty ELSE Str123)])))
ProvArg == Provider("func", 1, 1, PtrTo(Zero(<<"D">>)))
ProvPtrT1 == Provider("func", 0, 1, PtrTo(Zero(<<"T1">>)))
Providers == {ProvT0, ProvT1, ProvAbc, ProvD, ProvD2, ProvArg, ProvPtrT1}

(* &D{"xyz", "123"} *)
PresetD ==
    StructOf(<<"D">>, [x \in {"E1", "E2"} |->
                 Scalar(<<"string">>, IF x = "E1" THEN StrXyz ELSE Str123)])

(* the arguments given to Configure: nil, values that are no pointers,     *)
(* nil pointers, and pointers to targets of every kind; an interface{} is  *)
(* nil, holds the string "xyz", or holds &D{"xyz", "123"}                  *)
Targets ==
    { NilArg, Zero(<<"D">>), Scalar(<<"int">>, 7),
      Zero(<<"*", "D">>), Zero(<<"*", "[]", "int">>),
      PtrTo(Scalar(<<"bool">>, 1)), PtrTo(Scalar(<<"int">>, 7)),
      PtrTo(Scalar(<<"uint">>, 7)), PtrTo(Scalar(<<"float64">>, 25)),
      PtrTo(Scalar(<<"string">>, StrXyz)), PtrTo(Zero(<<"interface {}">>)),
      PtrTo(Zero(<<"*", "bool">>)), PtrTo(PtrTo(Scalar(<<"bool">>, 1))),
      PtrTo(ArrayOf(<<"[3]", "int">>, [i \in 1..3 |-> Scalar(<<"int">>, 6 + i)])),
      PtrTo(SliceOf(<<"[]", "int">>, [i \in 1..3 |-> Scalar(<<"int">>, 6 + i)], 3)),
      PtrTo(SliceOf(<<"[]", "int">>, <<Scalar(<<"int">>, 7)>>, 4)),
      PtrTo(Zero(<<"[]", "interface {}">>)), PtrTo(Zero(<<"[]", "C">>)),
      PtrTo(MapOf(<<"map[string]", "int">>,
                  [x \in {"a", "zz"} |-> Scalar(<<"int">>, IF x = "a" THEN 7 ELSE 9)])),
      PtrTo(Zero(<<"map[string]", "int">>)), PtrTo(Zero(<<"map[string]", "C">>)),
      PtrTo(WithField(Zero(<<"Obj">>), "A0", Scalar(<<"string">>, StrXyz))),
      PtrTo(Zero(<<"U">>)), PtrTo(Zero(<<"D">>)),
      PtrTo(Zero(<<"C">>)), PtrTo(Holding(<<"C">>, PtrTo(PresetD))),
      PtrTo(SetRaw(Zero(<<"interface {}">>), MkStr(StrXyz))),
      PtrTo(Holding(<<"interface {}">>, PtrTo(PresetD))) }

(* the optional path of Configure: none, or a path into the data *)
ConfigurePaths == {<<>>, <<"a">>}

(* a YAML file whose document is the integer 65, which yaml.Unmarshal      *)
(* decodes as an int                                                       *)
BindFiles == { [ext |-> ".yaml", readable |-> TRUE, doc |-> JDoc(MkInt(65))] }

(* New, then LoadJSON of one document or Load of one file *)
InitBind ==
    \E l \in {[doc |-> doc, r |-> LoadJSON(<<>>, Nil, <<JDoc(doc)>>, KeyList)] :
                  doc \in BindDocs}
              \cup {[doc |-> file.doc.t, r |-> Load(<<>>, Nil, <<file>>, KeyList)] :
                       file \in BindFiles} :
        /\ heap = l.r.h
        /\ data = l.r.v
        /\ held = <<>>
        /\ types = EmptyMap
        /\ last = NoCall
        /\ srcs = [trees |-> <<l.doc>>, pure |-> TRUE]
        /\ steps = 0

RegisterCall ==
    /\ steps < MaxSteps
    /\ \E name \in TypeNames, provider \in Providers :
        LET r == Register(types, name, provider)
        IN /\ types' = r.types
           /\ last' = [NoCall EXCEPT !.op = "Register", !.name = name, !.prov = provider,
                                     !.err = r.err, !.pre = Pre]
    /\ steps' = steps + 1
    /\ UNCHANGED <<heap, data, held, srcs>>

(* ConfigureCall, changed to take the value it has bound out of the       *)
(* Config: after a call that returns nil the Config holds no data          *)
ConfigureCall_TakesData ==
    /\ steps < MaxSteps
    /\ \E rv \in Targets, path \in ConfigurePaths, ord \in KeyOrders :
        LET r == Configure([h |-> heap, types |-> types], data, rv, path, ord)
        IN /\ last' = [NoCall EXCEPT !.op = "Configure", !.tgt = rv, !.path = path,
                                     !.ord = ord,
                                     !.out = r.v, !.err = r.err, !.errPath = r.path,
                                     !.msg = r.msg, !.calls = r.calls, !.pre = Pre]
           /\ data' = IF r.err = "" THEN Nil ELSE data
    /\ steps' = steps + 1
    /\ UNCHANGED <<heap, types, held, srcs>>

ConfigureCall ==
    /\ steps < MaxSteps
    /\ \E rv \in Targets, path \in ConfigurePaths, ord \in KeyOrders :
        LET r == Configure([h |-> heap, types |-> types], data, rv, path, ord)
        IN last' = [NoCall EXCEPT !.op = "Configure", !.tgt = rv, !.path = path,
                                  !.ord = ord,
                                  !.out = r.v, !.err = r.err, !.errPath = r.path,
                                  !.msg = r.msg, !.calls = r.calls, !.pre = Pre]
    /\ steps' = steps + 1
    /\ UNCHANGED <<heap, data, types, held, srcs>>

NextBind == RegisterCall \/ ConfigureCall
SpecBind == InitBind /\ [][NextBind]_vars

(* New, LoadJSON of a document that names a type, then                     *)
(* Register("C1", func() *D { return &D{} })                               *)
InitReg ==
    \E doc \in {DocTyped, DocNested} :
        LET l == LoadJSON(<<>>, Nil, <<JDoc(doc)>>, KeyList)
            r == Register(EmptyMap, StrC1, ProvD)
        IN /\ heap = l.h
           /\ data = l.v
           /\ held = <<>>
           /\ types = r.types
           /\ last = [NoCall EXCEPT !.op = "Register", !.name = StrC1, !.prov = ProvD,
                                     !.err = r.err,
                                     !.pre = [heap |-> l.h, data |-> l.v, types |-> EmptyMap]]
           /\ srcs = [trees |-> <<doc>>, pure |-> TRUE]
           /\ steps = 0

(* registering again, and binding *)
NextReg == RegisterCall \/ ConfigureCall
SpecReg == InitReg /\ [][NextReg]_vars

----------------------------------------------------------------------------
(* Claims about merge *)

(* the operands of the merge just made, as trees before the call, and its  *)
(* result as a tree after it                                               *)
MergeBase == Tree(last.pre.heap, last.args[1])
MergeUpdate == Tree(last.pre.heap, last.args[2])
MergeResult == Tree(heap, last.res)

(* C1: merge(base, update) is update in its entirety whenever base is      *)
(* absent or one of base and update is not a mapping: the value returned   *)
(* is update itself, it prints as update did before the call, and merging  *)
(* [1,3,2] with [100,200] gives [100,200].                                 *)
C1_MergeReplacesWholesale ==
    last.op = "merge" =>
        /\ (MergeBase.k # "map" \/ MergeUpdate.k # "map") =>
              /\ last.res = last.args[2]
              /\ MergeResult = MergeUpdate
        /\ (/\ MergeBase = JArr(<<JNum(1), JNum(3), JNum(2)>>)
            /\ MergeUpdate = JArr(<<JNum(100), JNum(200)>>)) =>
              MergeResult = JArr(<<JNum(100), JNum(200)>>)

C1_Witness ==
    /\ last.op = "merge"
    /\ MergeBase = JArr(<<JNum(1), JNum(3), JNum(2)>>)
    /\ MergeUpdate = JArr(<<JNum(100), JNum(200)>>)
    /\ MergeResult = MergeUpdate

(* C2: when base and update are both mappings, the keys of the result are  *)
(* exactly the keys of base together with the keys of update, whatever     *)
(* the values (a null in update included).                                 *)
C2_MergeKeysAreUnion ==
    (last.op = "merge" /\ MergeBase.k = "map" /\ MergeUpdate.k = "map") =>
        DOMAIN MergeResult.m = (DOMAIN MergeBase.m) \cup (DOMAIN MergeUpdate.m)

----------------------------------------------------------------------------
(* Claims about SetData, Load and LoadJSON *)

(* the paths of keys into the trees of the model *)
KeyPaths == UNION {[1..n -> Keys] : n \in 1..3}

(* the node of a tree at a path of keys, if every key on the way is there *)
RECURSIVE TreeAt(_, _)
TreeAt(t, p) ==
    IF p = <<>> THEN [found |-> TRUE, t |-> t]
    ELSE IF t.k = "map" /\ Head(p) \in DOMAIN t.m
         THEN TreeAt(t.m[Head(p)], Tail(p))
         ELSE [found |-> FALSE, t |-> Nil]

DataTree == Tree(heap, data)
SetMax(S) == CHOOSE x \in S : \A y \in S : y <= x
Definers(p) == {i \in DOMAIN srcs.trees : TreeAt(srcs.trees[i], p).found}

(* C3: after SetData(S1..Sn), or after LoadJSON/Load calls that merged     *)
(* S1..Sn, all of them mappings, every leaf path of the data carries the   *)
(* value the highest-indexed Si that defines the path gives it.            *)
C3_LastSourceWins ==
    (/\ last.op \in {"SetData", "LoadJSON", "Load"}
     /\ srcs.pure /\ srcs.trees # <<>>
     /\ \A i \in DOMAIN srcs.trees : srcs.trees[i].k = "map") =>
        \A p \in KeyPaths :
            LET r == TreeAt(DataTree, p)
            IN (r.found /\ r.t.k # "map") =>
                   /\ Definers(p) # {}
                   /\ r.t = TreeAt(srcs.trees[SetMax(Definers(p))], p).t

(* C4: SetData drops the data the Config held: whatever calls came        *)
(* before, the data after SetData(d1..dn) is the merge of d1..dn started   *)
(* from no data, each of its leaves is a leaf of one of d1..dn, and        *)
(* SetData(nil) and SetData() leave no data (Data() returns nil).          *)
C4_SetDataDiscards ==
    last.op = "SetData" =>
        /\ (\A i \in DOMAIN last.args : last.args[i] = Nil) => data = Nil
        /\ \E ord \in KeyOrders :
              LET f == MergeAll(last.pre.heap, Nil, last.args, ord)
              IN data = f.v /\ heap = f.h
        /\ \A p \in KeyPaths :
              LET r == TreeAt(DataTree, p)
              IN (r.found /\ r.t.k # "map") =>
                     \E i \in DOMAIN last.args :
                         TreeAt(Tree(last.pre.heap, last.args[i]), p) = r

(* a SetData on a Config that held loaded data, which is gone afterwards *)
C4_Witness ==
    /\ last.op = "SetData"
    /\ last.pre.data.k = "map"
    /\ TreeAt(Tree(last.pre.heap, last.pre.data), <<"b", "b", "a">>).found
    /\ data = held[2]
    /\ ~TreeAt(DataTree, <<"b", "b", "a">>).found

----------------------------------------------------------------------------
(* Claims about Get and Set *)

(* the index a path segment names: a decimal number, or -1 *)
SegIndex(p) ==
    CASE p = "0" -> 0 [] p = "1" -> 1 [] p = "2" -> 2 [] OTHER -> -1

(* the node of a tree a dotted path leads to, by key in a mapping and by   *)
(* index in a sequence; Nil when a segment does not resolve or the node    *)
(* is null                                                                 *)
RECURSIVE NodeAt(_, _)
NodeAt(t, path) ==
    IF path = <<>> THEN t
    ELSE CASE t.k = "map" ->
                IF Head(path) \in DOMAIN t.m THEN NodeAt(t.m[Head(path)], Tail(path)) ELSE Nil
           [] t.k = "slice" ->
                IF SegIndex(Head(path)) >= 0 /\ SegIndex(Head(path)) < Len(t.s)
                THEN NodeAt(t.s[SegIndex(Head(path)) + 1], Tail(path))
                ELSE Nil
           [] OTHER -> Nil

PreTree == Tree(last.pre.heap, last.pre.data)
GetNode == NodeAt(PreTree, last.path)
GetResult == Tree(heap, last.res)

(* C5 as claimed: Get returns the default when the path does not resolve   *)
(* to a non-null node, and the node itself otherwise.                      *)
C5_GetNodeOrDefault ==
    last.op = "Get" =>
        IF IsValid(GetNode) THEN GetResult = GetNode ELSE last.res = last.def

(* C5, amended: Get returns the default when the path does not resolve to  *)
(* a non-null node; otherwise it returns the node itself when no default   *)
(* or a default of the node's type is given, and a value of the default's  *)
(* type when a default of another type is given.                           *)
C5_GetNodeOrDefaultAmended ==
    last.op = "Get" =>
        IF IsValid(GetNode)
        THEN /\ (~IsValid(last.def) \/ last.def.k = GetNode.k) => GetResult = GetNode
             /\ IsValid(last.def) => last.res.k = last.def.k
        ELSE last.res = last.def

(* Get("a.1.a") finds 200 in {"a": ["abc", {"a": 200}], "b": null} *)
C5_Witness ==
    /\ last.op = "Get"
    /\ last.path = <<"a", "1", "a">>
    /\ ~IsValid(last.def)
    /\ PreTree = DocJ3
    /\ last.res = JNum(200)

(* the value of type `to` Go's conversion makes of a number *)
Converted(node, to) ==
    CASE node.k = to -> node
      [] node.k = "float64" /\ to = "int" -> MkInt(Truncate(node.n))
      [] node.k = "float64" /\ to = "int64" -> MkInt64(Truncate(node.n))
      [] node.k = "int" /\ to = "int64" -> MkInt64(node.n)
      [] node.k = "int64" /\ to = "int" -> MkInt(node.n)
      [] node.k \in {"int", "int64"} /\ to = "float64" -> MkFloat(10 * node.n)
      [] node.k \in {"int", "int64"} /\ to = "string" -> MkStr(RuneString(node.n))
      [] OTHER -> Nil

(* C6: with a non-nil default, Get returns a value of the default's type:  *)
(* the node converted when its type converts to the default's, the default *)
(* when the path is missing or the node does not convert; so the typed     *)
(* getters never fail on their type assertion.                             *)
C6_GetKeepsDefaultType ==
    (last.op \in {"Get", "GetTyped"} /\ IsValid(last.def)) =>
        /\ last.res.k = last.def.k
        /\ last.err = ""
        /\ IF IsValid(GetNode) /\ ConvertibleTo(GetNode.k, last.def.k)
           THEN GetResult = Converted(GetNode, last.def.k)
           ELSE last.res = last.def

(* GetInt("a") on {"a": 100, ...} of JSON: the float64 100 comes as int *)
C6_Witness ==
    /\ last.op = "GetTyped"
    /\ last.path = <<"a">>
    /\ last.def = MkInt(0)
    /\ GetNode = JNum(100)
    /\ last.res = MkInt(100)

(* the proper prefixes of the path of the last call *)
Prefixes == {SubSeq(last.path, 1, i) : i \in 0..(Len(last.path) - 1)}

(* C7: for a non-null value, on a Config with no data or with a mapping    *)
(* tree in which every proper prefix of the path is absent (or null) or a  *)
(* mapping, Set succeeds, every proper prefix is a mapping afterwards and  *)
(* Get(path) returns the value.                                            *)
C7_SetGetRoundTrip ==
    (/\ last.op = "Set"
     /\ IsValid(last.val)
     /\ \/ ~IsValid(last.pre.data)
        \/ \A q \in Prefixes :
               LET r == TreeAt(PreTree, q)
               IN r.found => r.t.k \in {"map", "invalid"}) =>
        /\ last.err = ""
        /\ \A q \in Prefixes : NodeAt(DataTree, q).k = "map"
        /\ Get(heap, data, last.path, Nil) = last.val

(* Set("b.a", 100) on {"a": [...], "b": null}: the mapping b is created   *)
(* and Get("b.a") returns 100                                              *)
C7_Witness ==
    /\ last.op = "Set"
    /\ last.path = <<"b", "a">>
    /\ last.val = MkInt(100)
    /\ PreTree = DocJ3
    /\ last.err = ""
    /\ NodeAt(DataTree, <<"b">>) = MkTree([x \in {"a"} |-> MkInt(100)])
    /\ Get(heap, data, <<"b", "a">>, Nil) = MkInt(100)

ScalarKinds == {"bool", "int", "int64", "float64", "string"}

(* C8: Set returns a ConfigPathError when a segment has to be resolved     *)
(* inside a scalar, and when the segment addressing a sequence is not a    *)
(* non-negative integer below the capacity of the sequence.                *)
C8_SetPathError ==
    last.op = "Set" =>
        \A q \in Prefixes :
            LET node == NodeAt(PreTree, q)
                seg == last.path[Len(q) + 1]
            IN /\ node.k \in ScalarKinds =>
                    /\ last.err = "ConfigPathError"
                    /\ last.errPath = SubSeq(last.path, 1, Len(q) + 1)
               /\ (node.k = "slice" /\ ~(SegIndex(seg) >= 0 /\ SegIndex(seg) < node.n)) =>
                    last.err = "ConfigPathError"

(* Set("a.2", v) on a sequence of two elements and capacity two *)
C8_Witness ==
    /\ last.op = "Set"
    /\ last.path = <<"a", "2">>
    /\ PreTree = DocJ3
    /\ last.err = "ConfigPathError"
    /\ last.errPath = <<"a", "2">>
    /\ DataTree = DocJ3

----------------------------------------------------------------------------
(* Claims about Register and Configure *)

(* C9: Register fails with a ProviderError and leaves the registry as it   *)
(* was whenever the factory is not a function, has another number of       *)
(* outputs than one, or takes an argument; it succeeds and stores the      *)
(* factory under the name for every function of no argument and one        *)
(* output.                                                                 *)
C9_RegisterRejects ==
    last.op = "Register" =>
        IF last.prov.kind # "func" \/ last.prov.numOut # 1 \/ last.prov.numIn >= 1
        THEN last.err = "ProviderError" /\ types = last.pre.types
        ELSE /\ last.err = ""
             /\ last.name \in DOMAIN types
             /\ types[last.name] = last.prov

(* C10: given a target that is no pointer (nil included) or a nil pointer, *)
(* Configure returns a ConfigTargetError and leaves the target, the data   *)
(* and the registry as they were and calls no provider, whatever the data  *)
(* and the path are.                                                       *)
C10_ConfigureTargetError ==
    (last.op = "Configure" /\ (TypeOf(last.tgt.t).k # "ptr" \/ last.tgt.z)) =>
        /\ last.err = "ConfigTargetError"
        /\ last.out = last.tgt
        /\ last.calls = <<>>
        /\ heap = last.pre.heap /\ data = last.pre.data /\ types = last.pre.types

(* Configure of a nil pointer to D with the path "a", on data in which     *)
(* "a" leads nowhere: the target is refused before the path is looked up   *)
C10_Witness ==
    /\ last.op = "Configure"
    /\ last.tgt = Zero(<<"*", "D">>)
    /\ last.path = <<"a">>
    /\ ~IsValid(Get(heap, data, <<"a">>, Nil))
    /\ last.err = "ConfigTargetError"
    /\ last.out = last.tgt

(* the Configure call just made on a pointer that is not nil: the target   *)
(* the pointer leads to before and after the call, and the configuration   *)
(* value the call binds, read from the data as they were before the call   *)
Bound == last.op = "Configure" /\ TypeOf(last.tgt.t).k = "ptr" /\ ~last.tgt.z
BindTarget == last.tgt.p[1]
BindResult == last.out.p[1]
BindConfig ==
    IF last.path = <<>> THEN last.pre.data
    ELSE Get(last.pre.heap, last.pre.data, last.path, Nil)
BindSource == Tree(last.pre.heap, BindConfig)
BindReached == Bound /\ (last.path = <<>> \/ IsValid(BindConfig))
Min(a, b) == IF a < b THEN a ELSE b

(* C11: binding a sequence of n numbers onto an array of c integers gives  *)
(* no error and leaves an array whose element i is source element i        *)
(* converted, for i < min(n, c), and zero for every i >= min(n, c); the    *)
(* source elements at c and beyond are dropped.                            *)
C11_ArrayBind ==
    (/\ BindReached
     /\ BindTarget.t = <<"[3]", "int">>
     /\ BindSource.k = "slice"
     /\ \A i \in 1..Min(Len(BindSource.s), 3) : IsNumeric(BindSource.s[i].k)) =>
        /\ last.err = ""
        /\ BindResult.t = BindTarget.t
        /\ Len(BindResult.s) = 3
        /\ \A i \in 1..3 :
              BindResult.s[i] =
                  IF i <= Len(BindSource.s)
                  THEN Scalar(<<"int">>, Convert(BindSource.s[i], "int").n)
                  ELSE Zero(<<"int">>)

(* [1,3] onto [3]int{7,8,9} leaves {1,3,0} *)
C11_Witness ==
    /\ BindReached
    /\ BindTarget = ArrayOf(<<"[3]", "int">>, [i \in 1..3 |-> Scalar(<<"int">>, 6 + i)])
    /\ BindSource = JArr(<<JNum(1), JNum(3)>>)
    /\ last.err = ""
    /\ BindResult = ArrayOf(<<"[3]", "int">>,
                            <<Scalar(<<"int">>, 1), Scalar(<<"int">>, 3), Scalar(<<"int">>, 0)>>)

(* [1,3,2,4] onto [3]int{7,8,9} leaves {1,3,2}: the fourth is dropped *)
C11_Dropped ==
    /\ BindReached
    /\ BindTarget.t = <<"[3]", "int">>
    /\ BindSource = JArr(<<JNum(1), JNum(3), JNum(2), JNum(4)>>)
    /\ last.err = ""
    /\ BindResult.s = <<Scalar(<<"int">>, 1), Scalar(<<"int">>, 3), Scalar(<<"int">>, 2)>>

(* C12: when a sequence of n elements is bound onto a slice with no       *)
(* error, whatever length and capacity the slice had, the slice has        *)
(* length n and its element i is what binding source element i onto the    *)
(* element the slice had at i (a zero value where it had none) leaves, for *)
(* every i < n; a longer slice is cut to n, not filled with zero values.   *)
C12_SliceLength ==
    (/\ BindReached
     /\ TypeOf(BindTarget.t).k = "slice"
     /\ BindSource.k = "slice"
     /\ last.err = "") =>
        /\ BindResult.t = BindTarget.t
        /\ Len(BindResult.s) = Len(BindSource.s)
        /\ \A i \in 1..Len(BindSource.s) :
              \E ord \in KeyOrders :
                  LET r == configure([h |-> last.pre.heap, types |-> last.pre.types],
                                     IF i <= Len(BindTarget.s) THEN BindTarget.s[i]
                                     ELSE Zero(TypeOf(BindTarget.t).elem),
                                     BindConfig.s[i], Append(last.path, Itoa(i - 1)), ord)
                  IN r.err = "" /\ BindResult.s[i] = r.v
        /\ (BindTarget.t = <<"[]", "int">> /\ \A i \in DOMAIN BindSource.s :
                                                IsNumeric(BindSource.s[i].k)) =>
              BindResult.s = [i \in DOMAIN BindSource.s |->
                                 Scalar(<<"int">>, Convert(BindSource.s[i], "int").n)]

(* [1,3] onto the slice []int{7,8,9} leaves [1,3], of length 2 *)
C12_Witness ==
    /\ BindReached
    /\ BindTarget = SliceOf(<<"[]", "int">>, [i \in 1..3 |-> Scalar(<<"int">>, 6 + i)], 3)
    /\ BindSource = JArr(<<JNum(1), JNum(3)>>)
    /\ last.err = ""
    /\ BindResult.s = <<Scalar(<<"int">>, 1), Scalar(<<"int">>, 3)>>

(* C13: binding null onto a bool, an integer, a float or a string gives   *)
(* no error and leaves the target with the value it had, a value that is   *)
(* not the zero value included.                                            *)
C13_NullKeepsScalar ==
    (/\ BindReached
     /\ TypeOf(BindTarget.t).k \in {"bool", "int", "float64", "string"}
     /\ ~IsValid(BindConfig)) =>
        /\ last.err = ""
        /\ last.out = last.tgt
        /\ last.calls = <<>>

(* null onto an int holding 7 leaves 7 *)
C13_Witness ==
    /\ BindReached
    /\ BindTarget = Scalar(<<"int">>, 7)
    /\ ~IsValid(BindConfig)
    /\ last.err = ""
    /\ BindResult = Scalar(<<"int">>, 7)

(* the keys of the mapping bound that configureStruct refuses on the      *)
(* target: those that name no field and those that name an unexported one  *)
RefusedKeys ==
    {k \in DOMAIN BindSource.m :
        k # typeKey /\ (k \notin DOMAIN TypeOf(BindTarget.t).fields \/ ~Exported(k))}

(* C14: binding a mapping onto a struct fails with a ConfigValueError      *)
(* whenever a key other than "type" names no field of the struct or names  *)
(* a field that cannot be set, and the error that reports such a key has a *)
(* path that ends with the key.                                            *)
C14_FieldErrorPath ==
    (/\ BindReached
     /\ TypeOf(BindTarget.t).k = "struct"
     /\ BindSource.k = "map"
     /\ RefusedKeys # {}) =>
        /\ last.err = "ConfigValueError"
        /\ last.msg \in {"field not found in struct", "field cannot be set"} =>
              \E k \in RefusedKeys : last.errPath = Append(last.path, k)

(* what does hold: the bind fails, and the error that reports the key      *)
(* carries the path of the struct itself                                   *)
C14_FieldErrorAtStruct ==
    (/\ BindReached
     /\ TypeOf(BindTarget.t).k = "struct"
     /\ BindSource.k = "map"
     /\ RefusedKeys # {}) =>
        /\ last.err = "ConfigValueError"
        /\ last.msg \in {"field not found in struct", "field cannot be set"} =>
              last.errPath = last.path

(* the "type" element of the mapping bound, and the provider registered   *)
(* under it before the call                                                *)
BindTypeKey == IF typeKey \in DOMAIN BindSource.m THEN BindSource.m[typeKey] ELSE Nil
BindTypeKnown == BindTypeKey.k = "string" /\ BindTypeKey.n \in DOMAIN last.pre.types
BindBuilder == last.pre.types[BindTypeKey.n]

(* the instance a provider makes has the methods of the interface, as a    *)
(* pointer or, when it is no pointer, through a pointer to it              *)
Satisfies(provider, iface) ==
    Implements(IF TypeOf(provider.makes.t).k = "ptr" THEN provider.makes.t
               ELSE <<"*">> \o provider.makes.t, iface)

(* C15: binding a mapping onto a nil interface that has a method fails     *)
(* with a ConfigValueError when the mapping has no "type", when its "type" *)
(* is no string, when no provider is registered under it, and when the     *)
(* instance the provider makes does not implement the interface.           *)
C15_InterfaceErrors ==
    (/\ BindReached
     /\ BindTarget = Zero(<<"C">>)
     /\ BindSource.k = "map"
     /\ \/ ~IsValid(BindTypeKey)
        \/ BindTypeKey.k # "string"
        \/ ~BindTypeKnown
        \/ BindBuilder.numIn = 0 /\ ~Satisfies(BindBuilder, <<"C">>)) =>
        last.err = "ConfigValueError"

(* what does hold: the three errors of the "type" element, and the error   *)
(* of an instance that is a pointer and does not implement the interface   *)
C15_InterfaceErrorsOfPointers ==
    (/\ BindReached
     /\ BindTarget = Zero(<<"C">>)
     /\ BindSource.k = "map"
     /\ \/ ~IsValid(BindTypeKey)
        \/ BindTypeKey.k # "string"
        \/ ~BindTypeKnown
        \/ /\ BindBuilder.numIn = 0 /\ ~Satisfies(BindBuilder, <<"C">>)
           /\ TypeOf(BindBuilder.makes.t).k = "ptr") =>
        /\ last.err = "ConfigValueError"
        /\ last.errPath = last.path
        /\ last.out = last.tgt

(* the keys of the mapping bound other than "type" are fields of D and    *)
(* hold strings                                                            *)
BindsOntoD ==
    \A k \in DOMAIN BindSource.m \ {typeKey} :
        k \in DOMAIN DFields /\ BindSource.m[k].k = "string"

(* the struct x of type D with the fields the mapping bound names set to   *)
(* the strings it gives them                                               *)
BoundOntoD(x) ==
    StructOf(<<"D">>, [k \in DOMAIN DFields |->
                          IF k \in DOMAIN BindSource.m
                          THEN Scalar(<<"string">>, BindSource.m[k].n)
                          ELSE x.f[k]])

(* C16: binding a mapping with "type": T onto a nil interface calls the    *)
(* provider registered under T once, stores the instance it makes in the   *)
(* interface and binds the other keys onto the fields of the instance;     *)
(* binding a mapping onto an interface that holds an instance calls no     *)
(* provider, whether or not the mapping has a "type", sets the fields the  *)
(* mapping names in that instance and leaves its other fields as they      *)
(* were.                                                                   *)
C16_ConstructAndRebind ==
    (BindReached /\ BindSource.k = "map" /\ BindsOntoD) =>
        /\ (/\ BindTarget = Zero(<<"C">>)
            /\ BindTypeKnown
            /\ BindBuilder.numIn = 0
            /\ BindBuilder.makes.t = <<"*", "D">>
            /\ ~BindBuilder.makes.z) =>
               /\ last.err = ""
               /\ last.calls = <<BindBuilder>>
               /\ BindResult = Holding(<<"C">>, PtrTo(BoundOntoD(BindBuilder.makes.p[1])))
        /\ (/\ BindTarget.t = <<"C">>
            /\ ~BindTarget.z
            /\ BindTarget.p[1].t = <<"*", "D">>
            /\ ~BindTarget.p[1].z) =>
               /\ last.err = ""
               /\ last.calls = <<>>
               /\ BindResult = Holding(<<"C">>, PtrTo(BoundOntoD(BindTarget.p[1].p[1])))

(* {"E1": "abc"}, which has no "type", onto an interface holding           *)
(* &D{"xyz", "123"}: E1 becomes "abc", E2 stays "123", no provider called  *)
C16_Witness ==
    /\ BindReached
    /\ BindTarget = Holding(<<"C">>, PtrTo(PresetD))
    /\ BindSource = JObj1("E1", MkStr(StrAbc))
    /\ last.err = ""
    /\ last.calls = <<>>
    /\ BindResult.p[1].p[1].f["E1"] = Scalar(<<"string">>, StrAbc)
    /\ BindResult.p[1].p[1].f["E2"] = Scalar(<<"string">>, Str123)

(* what an interface{} holds once the dynamic value config is stored in   *)
(* it as it is: nothing for null, config itself otherwise (a mapping is    *)
(* the map object of the data, not a copy)                                 *)
StoredVerbatim(config) ==
    IF IsValid(config) THEN SetRaw(Zero(<<"interface {}">>), config)
    ELSE Zero(<<"interface {}">>)

(* C17: binding a dynamic value of any kind onto an interface{} stores     *)
(* the value in it as it is, with no error, no conversion and no provider  *)
(* called, a mapping without "type" included.                              *)
C17_OpaquePassthrough ==
    (BindReached /\ BindTarget.t = <<"interface {}">>) =>
        /\ last.err = ""
        /\ last.calls = <<>>
        /\ BindResult = StoredVerbatim(BindConfig)

(* C17, amended: the same for an interface{} that is nil or holds a value  *)
(* that is no pointer; when it holds a pointer that is not nil, the value  *)
(* is bound onto what the pointer leads to and the interface keeps the     *)
(* pointer.                                                                *)
C17_OpaquePassthroughAmended ==
    (BindReached /\ BindTarget.t = <<"interface {}">>) =>
        IF BindTarget.p = <<>>
        THEN /\ last.err = ""
             /\ last.calls = <<>>
             /\ BindResult = StoredVerbatim(BindConfig)
        ELSE \E ord \in KeyOrders :
                LET r == configure([h |-> last.pre.heap, types |-> last.pre.types],
                                   BindTarget.p[1], BindConfig, last.path, ord)
                IN /\ last.err = r.err
                   /\ BindResult = Holding(<<"interface {}">>, r.v)
                   /\ BindResult.raw = Nil
                   /\ BindResult.p[1].t = BindTarget.p[1].t

(* {"E1": "abc"}, which has no "type", onto a nil interface{}: the         *)
(* interface holds the map of the data                                     *)
C17_Witness ==
    /\ BindReached
    /\ BindTarget = Zero(<<"interface {}">>)
    /\ BindSource = JObj1("E1", MkStr(StrAbc))
    /\ last.err = ""
    /\ last.calls = <<>>
    /\ BindResult.raw = last.pre.data
    /\ BindResult.raw.k = "map"

(* C18: when a mapping is bound onto a map with no error, the map is      *)
(* allocated if it was nil, every key of the mapping holds what binding    *)
(* its value onto a new zero element leaves (the entry the map had under   *)
(* the key plays no part), and every other entry of the map is as it was.  *)
C18_MapAdditive ==
    (/\ BindReached
     /\ TypeOf(BindTarget.t).k = "map"
     /\ BindSource.k = "map"
     /\ last.err = "") =>
        /\ BindResult.t = BindTarget.t
        /\ ~BindResult.z
        /\ DOMAIN BindResult.f = (DOMAIN BindTarget.f) \cup (DOMAIN BindSource.m)
        /\ \A k \in (DOMAIN BindTarget.f) \ (DOMAIN BindSource.m) :
              BindResult.f[k] = BindTarget.f[k]
        /\ \A k \in DOMAIN BindSource.m :
              \E ord \in KeyOrders :
                  LET r == configure([h |-> last.pre.heap, types |-> last.pre.types],
                                     Zero(TypeOf(BindTarget.t).elem),
                                     mapIndex(last.pre.heap, BindConfig, k),
                                     Append(last.path, k), ord)
                  IN r.err = "" /\ BindResult.f[k] = r.v
        /\ BindTarget.t = <<"map[string]", "int">> =>
              \A k \in DOMAIN BindSource.m :
                  BindResult.f[k] =
                      IF IsValid(BindSource.m[k])
                      THEN Scalar(<<"int">>, Convert(BindSource.m[k], "int").n)
                      ELSE Zero(<<"int">>)

(* {"a": null, "b": 3} onto map[string]int{"a": 7, "zz": 9} leaves         *)
(* {"a": 0, "b": 3, "zz": 9}: "a" is bound from zero, not from 7           *)
C18_Witness ==
    /\ BindReached
    /\ BindTarget = MapOf(<<"map[string]", "int">>,
                          [x \in {"a", "zz"} |-> Scalar(<<"int">>, IF x = "a" THEN 7 ELSE 9)])
    /\ BindSource = JObj2("a", Nil, "b", JNum(3))
    /\ last.err = ""
    /\ BindResult.f = [x \in {"a", "b", "zz"} |->
                           Scalar(<<"int">>, CASE x = "a" -> 0 [] x = "b" -> 3 [] OTHER -> 9)]

(* the kinds of the scalar targets, and the conversions of a scalar       *)
(* source to them that the statement counts: a bool to bool, a number to   *)
(* the integer, unsigned and float kinds, a string to string               *)
ScalarTargets == {"bool", "int", "uint", "float64", "string"}
CountedConvertible(from, to) ==
    \/ from = "bool" /\ to = "bool"
    \/ IsNumeric(from) /\ to \in {"int", "uint", "float64"}
    \/ from = "string" /\ to = "string"

(* the first element of the sequence bound that is a bool or a string *)
FirstNonNumber ==
    CHOOSE i \in DOMAIN BindSource.s :
        /\ BindSource.s[i].k \in {"bool", "string"}
        /\ \A j \in 1..(i - 1) : BindSource.s[j].k \notin {"bool", "string"}

(* C19: binding a scalar that is not null onto a bool, integer, unsigned,  *)
(* float or string target gives no error and the converted value (10.6     *)
(* gives 10) when a bool meets a bool, a number a numeric kind, a string   *)
(* a string; in every other case it gives a ConfigValueError with the path *)
(* of the value and the target keeps its value.  The path of a value       *)
(* inside a sequence ends with its index.                                  *)
C19_ScalarConvertible ==
    /\ (/\ BindReached
        /\ TypeOf(BindTarget.t).k \in ScalarTargets
        /\ BindConfig.k \in ScalarKinds) =>
           IF CountedConvertible(BindConfig.k, TypeOf(BindTarget.t).k)
           THEN /\ last.err = ""
                /\ BindResult =
                      Scalar(BindTarget.t, Convert(BindConfig, TypeOf(BindTarget.t).k).n)
           ELSE /\ last.err = "ConfigValueError"
                /\ last.errPath = last.path
                /\ last.out = last.tgt
    /\ (/\ BindReached
        /\ BindTarget.t \in {<<"[3]", "int">>, <<"[]", "int">>}
        /\ BindSource.k = "slice"
        /\ Len(BindSource.s) <= Len(BindTarget.s)
        /\ \E i \in DOMAIN BindSource.s : BindSource.s[i].k \in {"bool", "string"}) =>
           /\ last.err = "ConfigValueError"
           /\ last.errPath = Append(last.path, Itoa(FirstNonNumber - 1))
           /\ BindResult.s[FirstNonNumber] = BindTarget.s[FirstNonNumber]

(* what does hold: the same with the conversions of reflect, which has one *)
(* more: an integer converts to a string, the string of the one rune       *)
C19_ScalarConvertibleOfReflect ==
    /\ (/\ BindReached
        /\ TypeOf(BindTarget.t).k \in ScalarTargets
        /\ BindConfig.k \in ScalarKinds) =>
           IF ConvertibleTo(BindConfig.k, TypeOf(BindTarget.t).k)
           THEN /\ last.err = ""
                /\ BindResult =
                      Scalar(BindTarget.t, Convert(BindConfig, TypeOf(BindTarget.t).k).n)
                /\ (BindConfig = MkFloat(106) /\ TypeOf(BindTarget.t).k \in {"int", "uint"}) =>
                      BindResult.n = 10
           ELSE /\ last.err = "ConfigValueError"
                /\ last.errPath = last.path
                /\ last.out = last.tgt
    /\ (/\ BindReached
        /\ BindTarget.t \in {<<"[3]", "int">>, <<"[]", "int">>}
        /\ BindSource.k = "slice"
        /\ Len(BindSource.s) <= Len(BindTarget.s)
        /\ \E i \in DOMAIN BindSource.s : BindSource.s[i].k \in {"bool", "string"}) =>
           /\ last.err = "ConfigValueError"
           /\ last.errPath = Append(last.path, Itoa(FirstNonNumber - 1))
           /\ BindResult.s[FirstNonNumber] = BindTarget.s[FirstNonNumber]

(* C20: binding null onto an array gives no error and leaves every        *)
(* element of the array at its zero value, whatever it was.                *)
C20_NullResetsArray ==
    (/\ BindReached
     /\ TypeOf(BindTarget.t).k = "array"
     /\ ~IsValid(BindConfig)) =>
        /\ last.err = ""
        /\ BindResult = Zero(BindTarget.t)

(* what does hold: null leaves the array as it was *)
C20_NullKeepsArray ==
    (/\ BindReached
     /\ TypeOf(BindTarget.t).k = "array"
     /\ ~IsValid(BindConfig)) =>
        /\ last.err = ""
        /\ BindResult = BindTarget

(* C21: binding null onto a pointer, a map or a slice gives no error and  *)
(* leaves it nil: a pointer that was not nil becomes nil, a pointer that   *)
(* was nil is not allocated, a map or a slice becomes nil.                 *)
C21_NullResetsPointer ==
    (/\ BindReached
     /\ TypeOf(BindTarget.t).k \in {"ptr", "map", "slice"}
     /\ ~IsValid(BindConfig)) =>
        /\ last.err = ""
        /\ BindResult = Zero(BindTarget.t)

(* what does hold: a map or a slice becomes nil; a pointer to a bool that  *)
(* was nil points to a new false, one that was not nil is kept with the    *)
(* bool it points to                                                       *)
C21_NullFollowsPointer ==
    (/\ BindReached
     /\ ~IsValid(BindConfig)) =>
        /\ TypeOf(BindTarget.t).k \in {"map", "slice"} =>
              last.err = "" /\ BindResult = Zero(BindTarget.t)
        /\ BindTarget.t = <<"*", "bool">> =>
              /\ last.err = ""
              /\ BindResult = IF BindTarget.z THEN PtrTo(Zero(<<"bool">>)) ELSE BindTarget

----------------------------------------------------------------------------
(* Claims about what the calls leave alone *)

(* C22: merge, SetData, LoadJSON, Load and Set change none of the maps the *)
(* caller holds: each of them has after the call the keys and values it    *)
(* had before, the base and the update of a merge included.                *)
C22_OperandsUntouched ==
    last.op \in {"merge", "SetData", "LoadJSON", "Load", "Set"} =>
        \A i \in DOMAIN held : Tree(heap, held[i]) = Tree(last.pre.heap, held[i])

(* what does hold of one merge: the update is as it was, and so is a base  *)
(* that is not a map or is merged with an update that is not a map         *)
C22_UpdateUntouched ==
    last.op = "merge" =>
        /\ Tree(heap, held[2]) = Tree(last.pre.heap, held[2])
        /\ (held[1].k # "map" \/ held[2].k # "map") =>
              Tree(heap, held[1]) = Tree(last.pre.heap, held[1])

----------------------------------------------------------------------------
(* Claims about the order and the errors of Configure *)

(* what the Configure call just made answers when the keys of every        *)
(* mapping are visited in the order ord                                    *)
Rebound(ord) ==
    Configure([h |-> last.pre.heap, types |-> last.pre.types], last.pre.data,
              last.tgt, last.path, ord)

(* C24: the outcome of a Configure call is the same in whatever order the  *)
(* keys of each mapping are visited: the same error or none, and the same  *)
(* target after the call.                                                  *)
C24_OrderIndependent ==
    last.op = "Configure" =>
        \A ord \in KeyOrders :
            /\ Rebound(ord).err = last.err
            /\ Rebound(ord).path = last.errPath
            /\ Rebound(ord).msg = last.msg
            /\ Rebound(ord).v = last.out

(* what does hold: whether the call fails does not depend on the order,    *)
(* and neither does the target after a call that returns nil               *)
C24_SuccessOrderIndependent ==
    last.op = "Configure" =>
        \A ord \in KeyOrders :
            /\ (Rebound(ord).err = "") = (last.err = "")
            /\ last.err = "" => Rebound(ord).v = last.out

(* the Config as the Configure call just made found it *)
BindC == [h |-> last.pre.heap, types |-> last.pre.types]

(* the keys of the mapping bound that the target visits, in the order     *)
(* ord: a struct leaves "type" out, a map does not                         *)
BindKeys(ord) ==
    SelectSeq(MapKeys(last.pre.heap, BindConfig, ord),
              LAMBDA k : k # typeKey \/ TypeOf(BindTarget.t).k = "map")

(* what binding the one key k of the mapping bound answers, onto the field *)
(* k of a struct target or onto a new element of a map target              *)
OneKey(k, ord) ==
    IF TypeOf(BindTarget.t).k = "map"
    THEN configure(BindC, Zero(TypeOf(BindTarget.t).elem),
                   mapIndex(last.pre.heap, BindConfig, k), Append(last.path, k), ord)
    ELSE IF k \notin DOMAIN TypeOf(BindTarget.t).fields
         THEN ValueError(BindTarget, last.path, "field not found in struct", <<>>)
         ELSE IF ~Exported(k)
              THEN ValueError(BindTarget, last.path, "field cannot be set", <<>>)
              ELSE configure(BindC, BindTarget.f[k], mapIndex(last.pre.heap, BindConfig, k),
                             Append(last.path, k), ord)

(* the element the target has at index i - 1 when the bind reaches it, and *)
(* what binding source element i - 1 onto it answers                       *)
ElemBefore(i) ==
    IF i <= Len(BindTarget.s) THEN BindTarget.s[i] ELSE Zero(TypeOf(BindTarget.t).elem)
OneElem(i, ord) ==
    configure(BindC, ElemBefore(i), BindConfig.s[i], Append(last.path, Itoa(i - 1)), ord)

(* the first of a set of positions *)
SetMin(S) == CHOOSE x \in S : \A y \in S : x <= y

(* C25: a Configure call that meets a key or an element that fails stops   *)
(* there and returns the error of that key or element as it is; the keys   *)
(* and elements that come after it are not written, and those bound before *)
(* it keep the value bound.  Checked for a mapping bound onto a struct or  *)
(* a map, in the order the keys were visited, and for a sequence bound     *)
(* onto an array or a slice.                                               *)
C25_FailFast ==
    /\ (/\ BindReached
        /\ TypeOf(BindTarget.t).k \in {"struct", "map"}
        /\ BindSource.k = "map") =>
           LET ord == last.ord IN
               LET keys == BindKeys(ord)
                   failing == {i \in DOMAIN keys : OneKey(keys[i], ord).err # ""}
               IN IF failing = {}
                  THEN last.err = ""
                  ELSE LET f == SetMin(failing)
                           e == OneKey(keys[f], ord)
                       IN /\ last.err = e.err
                          /\ last.errPath = e.path
                          /\ last.msg = e.msg
                          /\ \A i \in 1..(f - 1) :
                                /\ keys[i] \in DOMAIN BindResult.f
                                /\ BindResult.f[keys[i]] = OneKey(keys[i], ord).v
                          /\ \A i \in (f + 1)..Len(keys) :
                                IF keys[i] \in DOMAIN BindTarget.f
                                THEN BindResult.f[keys[i]] = BindTarget.f[keys[i]]
                                ELSE keys[i] \notin DOMAIN BindResult.f
    /\ (/\ BindReached
        /\ TypeOf(BindTarget.t).k \in {"array", "slice"}
        /\ BindSource.k = "slice"
        /\ ~(Len(BindTarget.s) < Len(BindSource.s) /\ Len(BindSource.s) <= Cap(BindTarget))) =>
           LET ord == last.ord IN
               LET n == IF TypeOf(BindTarget.t).k = "array"
                        THEN Min(Len(BindSource.s), Len(BindTarget.s))
                        ELSE Len(BindSource.s)
                   failing == {i \in 1..n : OneElem(i, ord).err # ""}
               IN IF failing = {}
                  THEN last.err = ""
                  ELSE LET f == SetMin(failing)
                           e == OneElem(f, ord)
                       IN /\ last.err = e.err
                          /\ last.errPath = e.path
                          /\ last.msg = e.msg
                          /\ \A i \in 1..(f - 1) :
                                /\ i <= Len(BindResult.s)
                                /\ BindResult.s[i] = OneElem(i, ord).v
                          /\ \A i \in (f + 1)..Len(BindResult.s) :
                                BindResult.s[i] = ElemBefore(i)

(* {"A1": "abc", "A2": 100} onto a struct with A1 bool and A2 int, A2      *)
(* visited first: the error is that of A1 and A2 keeps 100                 *)
C25_Witness ==
    /\ BindReached
    /\ BindTarget.t = <<"Obj">>
    /\ BindSource = JObj2("A1", MkStr(StrAbc), "A2", JNum(100))
    /\ last.err = "ConfigValueError"
    /\ last.errPath = Append(last.path, "A1")
    /\ BindResult.f["A1"] = BindTarget.f["A1"]
    /\ BindResult.f["A2"] = Scalar(<<"int">>, 100)

----------------------------------------------------------------------------
(* Claims about what Set leaves alone *)

(* the paths of up to three segments *)
SegPaths == UNION {[1..n -> Segs] : n \in 1..3}

(* what a tree holds at a path of keys and indexes, and whether it holds   *)
(* anything there                                                          *)
RECURSIVE Held(_, _)
Held(t, p) ==
    IF p = <<>> THEN [found |-> TRUE, t |-> t]
    ELSE CASE t.k = "map" ->
                IF Head(p) \in DOMAIN t.m THEN Held(t.m[Head(p)], Tail(p))
                ELSE [found |-> FALSE, t |-> Nil]
           [] t.k = "slice" ->
                IF SegIndex(Head(p)) >= 0 /\ SegIndex(Head(p)) < Len(t.s)
                THEN Held(t.s[SegIndex(Head(p)) + 1], Tail(p))
                ELSE [found |-> FALSE, t |-> Nil]
           [] OTHER -> [found |-> FALSE, t |-> Nil]

IsPrefix(p, q) == Len(p) <= Len(q) /\ SubSeq(q, 1, Len(p)) = p

(* the paths that neither lead to the path of the last call nor go on      *)
(* from it                                                                 *)
OtherPaths == {p \in SegPaths : ~IsPrefix(p, last.path) /\ ~IsPrefix(last.path, p)}

(* the value the last segment of the path of the last call was resolved in *)
SetParent == Held(PreTree, SubSeq(last.path, 1, Len(last.path) - 1)).t

SetDone == last.op = "Set" /\ last.err = ""

(* C26: after a successful Set(path, value) every key and every element    *)
(* off the path holds what it held before, and a sequence whose element    *)
(* was overwritten is as long as it was.                                   *)
C26_SetChangesOnlyPath ==
    SetDone =>
        /\ \A p \in OtherPaths : Held(DataTree, p) = Held(PreTree, p)
        /\ SetParent.k = "slice" =>
              Len(Held(DataTree, SubSeq(last.path, 1, Len(last.path) - 1)).t.s)
                  = Len(SetParent.s)

(* what does hold: keys and elements off the path keep what they held      *)
(* unless they are later elements of the sequence written into, and that   *)
(* sequence ends at the element written                                    *)
C26_SetCutsSequence ==
    SetDone =>
        /\ \A p \in OtherPaths :
              \/ Held(DataTree, p) = Held(PreTree, p)
              \/ /\ SetParent.k = "slice"
                 /\ IsPrefix(SubSeq(last.path, 1, Len(last.path) - 1), p)
                 /\ SegIndex(p[Len(last.path)]) > SegIndex(last.path[Len(last.path)])
                 /\ ~Held(DataTree, p).found
        /\ SetParent.k = "slice" =>
              Len(Held(DataTree, SubSeq(last.path, 1, Len(last.path) - 1)).t.s)
                  = SegIndex(last.path[Len(last.path)]) + 1

----------------------------------------------------------------------------
(* Claims about registering a name again *)

(* the binding of the last call makes an instance of the type its mapping  *)
(* names: a mapping with a "type" is bound onto a nil interface C          *)
Constructs ==
    /\ BindReached
    /\ BindSource.k = "map"
    /\ BindTarget = Zero(<<"C">>)
    /\ BindTypeKey.k = "string"

(* C27: when Register(name, f2) succeeds for a name that held f1, the      *)
(* binding that follows and makes an instance of the type name calls f2    *)
(* if it calls a provider at all, and not f1; a Register leaves the        *)
(* provider of every other name as it was.                                 *)
C27_ReRegistrationOverwrites ==
    [][/\ (/\ last.op = "Register"
           /\ last.err = ""
           /\ last.name \in DOMAIN last.pre.types
           /\ Constructs'
           /\ BindTypeKey' = MkStr(last.name)) =>
              /\ last'.calls \in {<<>>, <<last.prov>>}
              /\ last.prov.numIn = 0 => last'.calls = <<last.prov>>
              /\ last.prov # last.pre.types[last.name] =>
                    \A i \in DOMAIN last'.calls :
                        last'.calls[i] # last.pre.types[last.name]
       /\ last'.op = "Register" =>
              \A name \in DOMAIN types \ {last'.name} :
                  name \in DOMAIN types' /\ types'[name] = types[name]]_vars

(* "C1" was registered with func() *D { return &D{} } and then with a      *)
(* provider that presets E2 to "123"; {"type": "C1", "E1": "abc"} bound    *)
(* onto a nil C is made by the second: E2 is "123"                         *)
C27_Witness ==
    /\ Constructs
    /\ BindTypeKey = MkStr(StrC1)
    /\ last.pre.types[StrC1] = ProvD2
    /\ BindSource = DocTyped
    /\ last.err = ""
    /\ last.calls = <<ProvD2>>
    /\ BindResult.p[1].p[1].f["E1"] = Scalar(<<"string">>, StrAbc)
    /\ BindResult.p[1].p[1].f["E2"] = Scalar(<<"string">>, Str123)

----------------------------------------------------------------------------
(* Claims about a Set that fails *)

(* C28: when Set returns an error the data of the Config is what it was    *)
(* before the call: no mapping was created on the way, no value replaced   *)
(* and no sequence cut or extended.                                        *)
C28_FailedSetKeepsData ==
    (last.op = "Set" /\ last.err = "ConfigPathError") =>
        /\ DataTree = PreTree
        /\ IsValid(last.pre.data)

(* Set("a.1.2", v) where a[1] is a slice of length 1 and capacity 2 that   *)
(* can be set: the index is refused and a[1] is neither extended nor       *)
(* written                                                                 *)
C28_Witness ==
    /\ last.op = "Set"
    /\ last.path = <<"a", "1", "2">>
    /\ IsValid(last.val)
    /\ PreTree = SeqTree
    /\ last.err = "ConfigPathError"
    /\ last.errPath = last.path
    /\ Held(DataTree, <<"a", "1">>).t = MkSlot(<<MkInt(4)>>, 2)
    /\ DataTree = SeqTree

============================================================================
